---- MODULE Spec2Model ----
(***************************************************************************)
(* Model of the Freakuency split-tunnel engine (src/core/split_engine.py)  *)
(* together with the route programming of src/core/network_utils.py.       *)
(*                                                                         *)
(* The engine is a supervisor object (SplitEngine) whose public methods    *)
(* start/stop/update_policy/update_mode are called by one caller, and      *)
(* three worker threads per run: the connection tracker, the outbound      *)
(* interceptor and the inbound interceptor.  Every statement that reads or *)
(* writes state shared between threads is a step of its own; blocks run    *)
(* under _handle_lock or _nat_lock are single steps (the lock makes them   *)
(* mutually exclusive and none of them blocks).                            *)
(*                                                                         *)
(* Scheduling assumption of Spec: a worker reaches its next test of the    *)
(* stop flag before the 2 s timeout of t.join() in stop() expires, so      *)
(* stop() proceeds past the join when the workers of the run have exited.  *)
(***************************************************************************)
EXTENDS Integers, Sequences, FiniteSets, TLC

(***************************************************************************)
(* Bounds of the environment.                                              *)
(***************************************************************************)
MaxRunCalls == 2
MaxOutPkts == 1
MaxInPkts == 1
MaxCycles == 1
MaxUpdates == 1
MaxThreads == 6
MaxTimeoutCalls == 3
MaxPolicyOut == 2
MaxPolicyIn == 1
MaxPolicyUpdates == 2
MaxNatKeys == 4
MaxNatCap == 3
MaxTrackerCycles == 3
MaxTrackerOut == 1
MaxPruneCycles == 101
MaxTransientOut == 2
MaxLockOut == 2
MaxBuildCycles == 2
MaxLookupRows == 2
NatLockCap == 1

(***************************************************************************)
(* Values.                                                                 *)
(***************************************************************************)
\* None where the value is otherwise a string
None == "None"
\* An optional integer or handle is a sequence: << >> is None, <<x>> is x
NoneI == << >>
Some(x) == <<x>>

VpnIp == "10.0.0.5"
DefaultIp == "192.168.1.20"
RemoteIp == "8.8.8.8"
Wildcard == "0.0.0.0"

LocalPorts == {44000, 5000}
RemotePorts == {443}

\* packet.interface of a captured packet: (interface index, sub-interface index)
CapturedInterface(local_ip) == IF local_ip = VpnIp THEN <<3, 0>> ELSE <<7, 1>>

BrowserRaw == "C:\\App\\Browser.EXE"
BrowserNorm == "c:\\app\\browser.exe"
ServerRaw == "C:\\srv\\server.exe"
ServerNorm == "c:\\srv\\server.exe"

\* os.path.normcase on Windows: lower-cases the path (and turns / into \)
NormCase(p) ==
    CASE p = BrowserRaw -> BrowserNorm
      [] p = "C:/App/browser.exe" -> BrowserNorm
      [] p = ServerRaw -> ServerNorm
      [] OTHER -> p

\* _norm_path(p): normcase(p) if p else p
_norm_path(p) == IF p = None \/ p = "" THEN p ELSE NormCase(p)

\* Python truthiness of an optional string and of an optional integer
Truthy(x) == x # None /\ x # ""
TruthyI(o) == o # NoneI /\ o[1] # 0

NAT_CLEANUP_EVERY == 50
NatMaxEntries == 50000

(***************************************************************************)
(* The configurations start() is called with.                              *)
(***************************************************************************)
Configs ==
    { [mode |-> "vpn_default", vpn_ip |-> VpnIp, default_ip |-> DefaultIp,
       toggled_apps |-> {BrowserRaw}, vpn_if_index |-> Some(3),
       default_if_index |-> Some(7), default_gateway |-> "192.168.1.1"],
      [mode |-> "direct_default", vpn_ip |-> VpnIp, default_ip |-> DefaultIp,
       toggled_apps |-> {"C:/App/browser.exe"}, vpn_if_index |-> NoneI,
       default_if_index |-> Some(8), default_gateway |-> "192.168.1.254"],
      [mode |-> "vpn_default", vpn_ip |-> VpnIp, default_ip |-> DefaultIp,
       toggled_apps |-> {}, vpn_if_index |-> Some(3),
       default_if_index |-> NoneI, default_gateway |-> None] }

PolicySets == { {}, {ServerRaw}, {"C:/App/browser.exe"} }
Modes == {"vpn_default", "direct_default"}

(***************************************************************************)
(* OS route table (network_utils.py).                                      *)
(***************************************************************************)
\* _SPLIT_ROUTES
_SPLIT_ROUTES == { <<"0.0.0.0", "128.0.0.0">>, <<"128.0.0.0", "128.0.0.0">> }

\* the route "route add dest mask mask gateway metric 9999 IF if_index" adds
SplitRoute(dm, gateway_ip, if_index) ==
    [dest |-> dm[1], mask |-> dm[2], gateway |-> gateway_ip,
     metric |-> 9999, ifx |-> if_index]

\* Routes the host has before the engine is constructed: the VPN client's
\* own default and /1 routes on the tunnel interface.
InitRoutes ==
    { [dest |-> "0.0.0.0", mask |-> "0.0.0.0", gateway |-> "10.0.0.1",
       metric |-> 1, ifx |-> 3],
      [dest |-> "0.0.0.0", mask |-> "128.0.0.0", gateway |-> "10.0.0.1",
       metric |-> 1, ifx |-> 3] }

\* the sockets of local processes, (laddr.ip, laddr.port, pid): the browser
\* has a connection from the tunnel address; no process owns port 5000
HostSockets == { [ip |-> VpnIp, port |-> 44000, pid |-> 11] }

\* psutil.Process(pid).exe()
ProcExe(pid) == IF pid = 11 THEN BrowserRaw ELSE ServerRaw

VARIABLES
    \* SplitEngine fields
    mode, vpn_ip, default_ip, vpn_if_index, default_if_index, default_gateway,
    toggled_apps, conn_table, port_table, pid_cache, nat_table,
    stop_event, threads, running, outbound_handle, inbound_handle,
    \* the caller of the public methods: the call in progress and its position
    sup_pc, sup_call, sup_args,
    \* the worker threads: thr[t] is thread t's position and locals
    thr,
    \* WinDivert handles that are open (a handle is named by its thread)
    h_open,
    \* the environment
    pydivert_ok,   \* the import of pydivert succeeded
    routes,        \* the OS route table
    route_failed,  \* some route add / route delete command has failed
    route_added,   \* ghost: the start() of the latest run called add_split_routes
    lookup,        \* the last call of get_pid_for_port: what the OS returned
                   \* for the two tables, the port asked for, the result
    nat_log,       \* ghost: the writes and deletions of NAT keys made by
                   \* NatWrite and NatPrune, in the order they were made
    os_socks,      \* the OS TCP/UDP table
    evicted,       \* the NAT keys that cleanup_nat_table has deleted
    held,          \* the pairs (mode, toggled set) that the configuration
                   \* has held since start() installed it: the pair of
                   \* start() and the pair left by every update
    net,           \* the packets re-injected so far, each with its
                   \* direction and with the packet as it was captured
    hist,          \* the start and stop calls made so far (see Log)
    n_out, n_in, n_upd

engine_vars == <<mode, vpn_ip, default_ip, vpn_if_index, default_if_index,
                 default_gateway, toggled_apps, conn_table, port_table,
                 pid_cache, nat_table, stop_event, threads, running,
                 outbound_handle, inbound_handle>>
cfg_vars == <<mode, vpn_ip, default_ip, vpn_if_index, default_if_index,
              default_gateway, toggled_apps>>
table_vars == <<conn_table, port_table, pid_cache, nat_table>>
sup_vars == <<sup_pc, sup_call, sup_args>>
env_vars == <<pydivert_ok, routes, route_failed, route_added, lookup,
              nat_log, os_socks, held,
              net, hist, n_out, n_in, n_upd>>
vars == <<engine_vars, sup_vars, thr, h_open, env_vars, evicted>>

MaxNatWrites == 4

\* a dict as a function: {} , d.get(k), d[k] = v
EmptyMap == << >>
Get(f, k) == IF k \in DOMAIN f THEN f[k] ELSE None
Put(f, k, v) == [x \in DOMAIN f \cup {k} |-> IF x = k THEN v ELSE f[x]]

\* hist records the sequence of start and stop calls while that sequence is
\* a beginning of start(c); stop(); start(c); stop() or is
\* start(c); stop(); stop(), and Other from the first call on that departs
\* from these.
Other == << <<"other">> >>
Log(h, call) ==
    IF h = Other THEN Other
    ELSE IF Len(h) \in {0, 2} /\ call[1] = "start"
                             /\ (Len(h) = 2 => call = h[1])
         THEN Append(h, call)
    ELSE IF Len(h) \in {1, 2} /\ call[1] = "stop" THEN Append(h, call)
    ELSE IF Len(h) = 3 /\ h[3][1] = "start" /\ call[1] = "stop"
         THEN Append(h, call)
    ELSE Other

\* no call of get_pid_for_port has been made
NoLookup == [tcp_rets |-> << >>, tcp_table |-> << >>, udp_rets |-> << >>,
             udp_table |-> << >>, port |-> 0, pid |-> NoneI]

(***************************************************************************)
(* SplitEngine.__init__                                                    *)
(***************************************************************************)
Init ==
    /\ mode = "vpn_default"
    /\ vpn_ip = None
    /\ default_ip = None
    /\ vpn_if_index = NoneI
    /\ default_if_index = NoneI
    /\ default_gateway = None
    /\ toggled_apps = {}
    /\ conn_table = EmptyMap
    /\ port_table = EmptyMap
    /\ pid_cache = EmptyMap
    /\ nat_table = EmptyMap
    /\ stop_event = FALSE
    /\ threads = << >>
    /\ running = FALSE
    /\ outbound_handle = NoneI
    /\ inbound_handle = NoneI
    /\ sup_pc = "idle"
    /\ sup_call = "none"
    /\ sup_args = None
    /\ thr = << >>
    /\ h_open = {}
    /\ pydivert_ok \in BOOLEAN
    /\ routes = InitRoutes
    /\ route_failed = FALSE
    /\ route_added = FALSE
    /\ lookup = NoLookup
    /\ nat_log = << >>
    /\ os_socks = HostSockets
    /\ held = { <<"vpn_default", {}>> }
    /\ evicted = {}
    /\ net = {}
    /\ hist = << >>
    /\ n_out = 0
    /\ n_in = 0
    /\ n_upd = 0

(***************************************************************************)
(* Worker threads.  The threads of a run are three consecutive numbers in  *)
(* the order of self._threads: tracker, outbound interceptor, inbound      *)
(* interceptor.  When the threads of the runs before have all returned,    *)
(* thr forgets them and the new threads are 1, 2, 3; when one of them      *)
(* still runs (it outlived join's timeout), the new threads are added      *)
(* after the old ones.                                                     *)
(***************************************************************************)
ThreadIds == 1..MaxThreads
Threads == 1..Len(thr)
Role(t) == CASE (t - 1) % 3 = 0 -> "conn"
             [] (t - 1) % 3 = 1 -> "out"
             [] OTHER -> "in"

\* a thread that t.start() has started and that has not run yet
\* (snaps: the alive_pids of the tracker's two most recent enumerations;
\* fails: the number of its enumerations that raised since the last one
\* that succeeded; total: the number of cycles the tracker has run; prunes:
\* the number of its calls of cleanup_nat_table; keys: the keys that a
\* cleanup_nat_table in progress on this thread has still to delete;
\* conns, new_table, new_port_table, alive_pids: the locals of a tracker
\* cycle that is taken step by step, conns being the connections of the
\* enumeration that the for loop has still to visit)
NewThread == [pc |-> "start", pkt |-> None, orig |-> None, lmode |-> None,
              rw |-> NoneI, cycles |-> 0, snaps |-> << >>, fails |-> 0,
              total |-> 0, prunes |-> 0, keys |-> << >>,
              conns |-> << >>, new_table |-> << >>, new_port_table |-> << >>,
              alive_pids |-> {}]
\* a thread whose target function has returned
DoneThread == [pc |-> "done", pkt |-> None, orig |-> None, lmode |-> None,
               rw |-> NoneI, cycles |-> 0, snaps |-> << >>, fails |-> 0,
              total |-> 0, prunes |-> 0, keys |-> << >>,
              conns |-> << >>, new_table |-> << >>, new_port_table |-> << >>,
              alive_pids |-> {}]

SetThr(t, r) == [thr EXCEPT ![t] = r]
Goto(t, p) == thr' = [thr EXCEPT ![t].pc = p]

(***************************************************************************)
(* Route programming (network_utils.py).  ok is the set of the two route   *)
(* commands that the OS carries out; a command outside ok fails and is     *)
(* only logged.                                                            *)
(***************************************************************************)
\* an installation that adds the first route of _SPLIT_ROUTES only
add_split_routes_first(rt, gateway_ip, if_index, ok) ==
    rt \cup { SplitRoute(dm, gateway_ip, if_index) :
                dm \in ok \cap { <<"0.0.0.0", "128.0.0.0">> } }

add_split_routes(rt, gateway_ip, if_index, ok) ==
    rt \cup { SplitRoute(dm, gateway_ip, if_index) : dm \in ok }

\* a removal that deletes the first route of _SPLIT_ROUTES only
remove_split_routes_first(rt, gateway_ip, if_index, ok) ==
    { r \in rt : ~ ( /\ <<"0.0.0.0", "128.0.0.0">> \in ok
                     /\ r.dest = "0.0.0.0"
                     /\ r.mask = "128.0.0.0"
                     /\ r.gateway = gateway_ip
                     /\ r.ifx = if_index ) }

remove_split_routes(rt, gateway_ip, if_index, ok) ==
    { r \in rt : ~ \E dm \in ok : /\ r.dest = dm[1]
                                  /\ r.mask = dm[2]
                                  /\ r.gateway = gateway_ip
                                  /\ r.ifx = if_index }

\* "if self._default_gateway and self._default_if_index" (start and stop)
RoutesConfigured == Truthy(default_gateway) /\ TruthyI(default_if_index)

(***************************************************************************)
(* SplitEngine.stop                                                        *)
(***************************************************************************)
\* stop() without its guard
StopNeverReturnsEarly == FALSE

\* line 151: "if not self._running: return"
StopReturnsEarly == ~running

\* lines 155-156: set the stop flag, clear the running flag
StopSignal ==
    /\ stop_event' = TRUE
    /\ running' = FALSE
    /\ sup_pc' = "stop_routes"
    /\ UNCHANGED <<cfg_vars, table_vars, threads, outbound_handle,
                   inbound_handle, thr, h_open, pydivert_ok, routes,
                   route_failed, route_added, lookup, nat_log, os_socks, held, evicted, net, n_out, n_in, n_upd>>

\* the call stop()
StopCall ==
    /\ sup_pc = "idle"
    /\ hist' = Log(hist, <<"stop">>)
    /\ IF StopReturnsEarly
       THEN UNCHANGED <<engine_vars, sup_vars, thr, h_open, pydivert_ok,
                        routes, route_failed, route_added, lookup, nat_log, os_socks, held, evicted, net, n_out, n_in,
                        n_upd>>
       ELSE /\ StopSignal
            /\ sup_call' = "stop"
            /\ UNCHANGED sup_args

\* stop() without lines 158-164: the routes are left in place
StopRoutesSkipped(ok) ==
    /\ sup_pc = "stop_routes"
    /\ ok = _SPLIT_ROUTES
    /\ sup_pc' = "stop_close"
    /\ UNCHANGED <<engine_vars, sup_call, sup_args, thr, h_open, env_vars, evicted>>

\* lines 158-164: remove the routes of this run
StopRoutes(ok) ==
    /\ sup_pc = "stop_routes"
    /\ IF RoutesConfigured
       THEN /\ routes' = remove_split_routes(routes, default_gateway,
                                             default_if_index[1], ok)
            /\ route_failed' = (route_failed \/ ok # _SPLIT_ROUTES)
       ELSE UNCHANGED <<routes, route_failed>>
    /\ route_added' = route_added
    /\ lookup' = lookup
    /\ nat_log' = nat_log
    /\ sup_pc' = "stop_close"
    /\ UNCHANGED <<engine_vars, sup_call, sup_args, thr, h_open, pydivert_ok,
                   os_socks, held, evicted, net, hist, n_out, n_in, n_upd>>

\* lines 167-175, under _handle_lock: close the registered handles
HandlesToClose ==
    { h[1] : h \in {outbound_handle, inbound_handle} \ {NoneI} }

\* a stop() that closes the outbound handle only
StopCloseOutboundOnly ==
    /\ sup_pc = "stop_close"
    /\ h_open' = h_open \ { h[1] : h \in {outbound_handle} \ {NoneI} }
    /\ outbound_handle' = NoneI
    /\ inbound_handle' = NoneI
    /\ sup_pc' = "stop_join"
    /\ UNCHANGED <<cfg_vars, table_vars, stop_event, threads, running,
                   sup_call, sup_args, thr, env_vars, evicted>>

\* lines 167-175
StopClose ==
    /\ sup_pc = "stop_close"
    /\ h_open' = h_open \ HandlesToClose
    /\ outbound_handle' = NoneI
    /\ inbound_handle' = NoneI
    /\ sup_pc' = "stop_join"
    /\ UNCHANGED <<cfg_vars, table_vars, stop_event, threads, running,
                   sup_call, sup_args, thr, env_vars, evicted>>

\* lines 170-173: handle.close() raises for the handles in failed, which
\* stay open; the error is swallowed and both slots are cleared all the same
StopCloseFails(failed) ==
    /\ sup_pc = "stop_close"
    /\ failed # {} /\ failed \subseteq HandlesToClose
    /\ h_open' = h_open \ (HandlesToClose \ failed)
    /\ outbound_handle' = NoneI
    /\ inbound_handle' = NoneI
    /\ sup_pc' = "stop_join"
    /\ UNCHANGED <<cfg_vars, table_vars, stop_event, threads, running,
                   sup_call, sup_args, thr, env_vars, evicted>>

\* lines 178-179: t.join(timeout=2) for every thread of the run
StopJoin ==
    /\ sup_pc = "stop_join"
    /\ \A i \in 1..Len(threads) : thr[threads[i]].pc = "done"
    /\ sup_pc' = "stop_clear"
    /\ UNCHANGED <<engine_vars, sup_call, sup_args, thr, h_open, env_vars, evicted>>

\* lines 178-179: a join returns after its 2 s although the thread has not
\* exited; the thread is abandoned
StopJoinTimeout ==
    /\ sup_pc = "stop_join"
    /\ \E i \in 1..Len(threads) : thr[threads[i]].pc # "done"
    /\ sup_pc' = "stop_clear"
    /\ UNCHANGED <<engine_vars, sup_call, sup_args, thr, h_open, env_vars, evicted>>

\* lines 181-186: drop the thread list and the tables, return
StopClear ==
    /\ sup_pc = "stop_clear"
    /\ threads' = << >>
    /\ nat_table' = EmptyMap
    /\ conn_table' = EmptyMap
    /\ port_table' = EmptyMap
    /\ pid_cache' = EmptyMap
    /\ IF sup_call = "start"
       THEN sup_pc' = "start_cfg" /\ UNCHANGED <<sup_call, sup_args>>
       ELSE sup_pc' = "idle" /\ sup_call' = "none" /\ UNCHANGED sup_args
    /\ UNCHANGED <<cfg_vars, stop_event, running, outbound_handle,
                   inbound_handle, thr, h_open, env_vars, evicted>>

(***************************************************************************)
(* SplitEngine.start                                                       *)
(***************************************************************************)
\* start() without lines 99-102
StartNeverRaises == FALSE

\* lines 99-102: "if pydivert is None: raise RuntimeError(...)"
StartRaisesNotInstalled == ~pydivert_ok

\* start() without lines 104-105: a running engine is not stopped first
StartCallNoStop(c) ==
    /\ sup_pc = "idle"
    /\ hist' = Log(hist, <<"start", c>>)
    /\ IF StartRaisesNotInstalled
       THEN UNCHANGED <<engine_vars, sup_vars, thr, h_open, pydivert_ok,
                        routes, route_failed, route_added, lookup, nat_log, os_socks, held, evicted, net,
                        n_out, n_in, n_upd>>
       ELSE /\ sup_call' = "start"
            /\ sup_args' = c
            /\ sup_pc' = "start_cfg"
            /\ UNCHANGED <<engine_vars, thr, h_open, pydivert_ok,
                           routes, route_failed, route_added, lookup, nat_log, os_socks, held, evicted,
                           net, n_out, n_in, n_upd>>

\* the call start(c): lines 99-105
StartCall(c) ==
    /\ sup_pc = "idle"
    /\ hist' = Log(hist, <<"start", c>>)
    /\ IF StartRaisesNotInstalled
       THEN \* raise RuntimeError
            UNCHANGED <<engine_vars, sup_vars, thr, h_open, pydivert_ok,
                        routes, route_failed, route_added, lookup, nat_log, os_socks, held, evicted, net, n_out, n_in,
                        n_upd>>
       ELSE /\ sup_call' = "start"
            /\ sup_args' = c
            /\ IF running
               THEN StopSignal
               ELSE /\ sup_pc' = "start_cfg"
                    /\ UNCHANGED <<engine_vars, thr, h_open, pydivert_ok,
                                   routes, route_failed, route_added, lookup, nat_log, os_socks, held, evicted, net,
                                   n_out, n_in, n_upd>>

\* lines 107-119: take the configuration, clear the stop flag and the tables
StartConfig ==
    /\ sup_pc = "start_cfg"
    /\ mode' = sup_args.mode
    /\ vpn_ip' = sup_args.vpn_ip
    /\ default_ip' = sup_args.default_ip
    /\ vpn_if_index' = sup_args.vpn_if_index
    /\ default_if_index' = sup_args.default_if_index
    /\ default_gateway' = sup_args.default_gateway
    /\ toggled_apps' = { _norm_path(p) : p \in sup_args.toggled_apps }
    /\ stop_event' = FALSE
    /\ conn_table' = EmptyMap
    /\ port_table' = EmptyMap
    /\ pid_cache' = EmptyMap
    /\ nat_table' = EmptyMap
    /\ held' = { <<mode', toggled_apps'>> }
    /\ sup_pc' = "start_routes"
    /\ UNCHANGED <<threads, running, outbound_handle, inbound_handle,
                   sup_call, sup_args, thr, h_open, pydivert_ok, routes,
                   route_failed, route_added, lookup, nat_log, os_socks, evicted, net, hist, n_out, n_in,
                   n_upd>>

\* a start() that a failed route command makes raise to its caller
StartRoutesRaises(ok) ==
    /\ sup_pc = "start_routes"
    /\ IF RoutesConfigured
       THEN /\ routes' = add_split_routes(routes, default_gateway,
                                          default_if_index[1], ok)
            /\ route_failed' = (route_failed \/ ok # _SPLIT_ROUTES)
            /\ route_added' = TRUE
       ELSE /\ UNCHANGED <<routes, route_failed>>
            /\ route_added' = FALSE
    /\ lookup' = lookup
    /\ nat_log' = nat_log
    /\ IF RoutesConfigured /\ ok # _SPLIT_ROUTES
       THEN sup_pc' = "idle" /\ sup_call' = "none" /\ sup_args' = None
       ELSE sup_pc' = "start_spawn" /\ UNCHANGED <<sup_call, sup_args>>
    /\ UNCHANGED <<engine_vars, thr, h_open, pydivert_ok,
                   os_socks, held, evicted, net, hist, n_out, n_in, n_upd>>

\* lines 123-125: install the routes
StartRoutes(ok) ==
    /\ sup_pc = "start_routes"
    /\ IF RoutesConfigured
       THEN /\ routes' = add_split_routes(routes, default_gateway,
                                          default_if_index[1], ok)
            /\ route_failed' = (route_failed \/ ok # _SPLIT_ROUTES)
            /\ route_added' = TRUE
       ELSE /\ UNCHANGED <<routes, route_failed>>
            /\ route_added' = FALSE
    /\ lookup' = lookup
    /\ nat_log' = nat_log
    /\ sup_pc' = "start_spawn"
    /\ UNCHANGED <<engine_vars, sup_call, sup_args, thr, h_open, pydivert_ok,
                   os_socks, held, evicted, net, hist, n_out, n_in, n_upd>>

\* the threads of earlier runs have all returned
AllReturned == \A t \in 1..Len(thr) : thr[t].pc = "done"

\* lines 128-142: create the three threads, set the running flag, start them
StartSpawn ==
    /\ sup_pc = "start_spawn"
    /\ LET old == IF AllReturned THEN << >> ELSE thr
       IN  /\ threads' = <<Len(old) + 1, Len(old) + 2, Len(old) + 3>>
           /\ thr' = old \o <<NewThread, NewThread, NewThread>>
    /\ running' = TRUE
    /\ sup_pc' = "idle"
    /\ sup_call' = "none"
    /\ sup_args' = None
    /\ UNCHANGED <<cfg_vars, table_vars, stop_event, outbound_handle,
                   inbound_handle, h_open, env_vars, evicted>>

(***************************************************************************)
(* SplitEngine.update_policy and SplitEngine.update_mode                   *)
(***************************************************************************)
\* app.py (_on_mode_change, _on_app_toggle) updates the engine only while
\* engine.running is true
Updatable == running

\* an update that also forgets the flows in flight
update_policy_clears_nat(apps) ==
    /\ n_upd' = n_upd + 1
    /\ toggled_apps' = { _norm_path(p) : p \in apps }
    /\ held' = held \cup { <<mode, toggled_apps'>> }
    /\ nat_table' = << >>
    /\ UNCHANGED <<mode, vpn_ip, default_ip, vpn_if_index, default_if_index,
                   default_gateway, conn_table, port_table, pid_cache,
                   stop_event, threads, running,
                   outbound_handle, inbound_handle, sup_vars, thr, h_open,
                   pydivert_ok, routes, route_failed, route_added, lookup, nat_log, os_socks, evicted, net,
                   hist, n_out, n_in>>

\* update_policy storing the paths as given, without _norm_path
update_policy_raw(apps) ==
    /\ n_upd' = n_upd + 1
    /\ toggled_apps' = apps
    /\ held' = held \cup { <<mode, toggled_apps'>> }
    /\ UNCHANGED <<mode, vpn_ip, default_ip, vpn_if_index, default_if_index,
                   default_gateway, table_vars, stop_event, threads, running,
                   outbound_handle, inbound_handle, sup_vars, thr, h_open,
                   pydivert_ok, routes, route_failed, route_added, lookup, nat_log, os_socks, evicted, net,
                   hist, n_out, n_in>>

\* lines 188-191
update_policy(apps) ==
    /\ n_upd' = n_upd + 1
    /\ toggled_apps' = { _norm_path(p) : p \in apps }
    /\ held' = held \cup { <<mode, toggled_apps'>> }
    /\ UNCHANGED <<mode, vpn_ip, default_ip, vpn_if_index, default_if_index,
                   default_gateway, table_vars, stop_event, threads, running,
                   outbound_handle, inbound_handle, sup_vars, thr, h_open,
                   pydivert_ok, routes, route_failed, route_added, lookup, nat_log, os_socks, evicted, net,
                   hist, n_out, n_in>>

update_mode(m) ==
    /\ n_upd' = n_upd + 1
    /\ mode' = m
    /\ held' = held \cup { <<m, toggled_apps>> }
    /\ UNCHANGED <<vpn_ip, default_ip, vpn_if_index, default_if_index,
                   default_gateway, toggled_apps, table_vars, stop_event,
                   threads, running, outbound_handle, inbound_handle,
                   sup_vars, thr, h_open, pydivert_ok, routes, route_failed, route_added, lookup, nat_log,
                   os_socks, evicted, net, hist, n_out, n_in>>

(***************************************************************************)
(* The environment: sockets of local processes, captured packets.          *)
(***************************************************************************)
\* outbound packets the capture layer hands over: the OS has bound each to
\* the interface that owns its source address
OutPackets ==
    { [src_addr |-> a, src_port |-> lp, dst_addr |-> RemoteIp,
       dst_port |-> rp, interface |-> CapturedInterface(a)] :
        a \in {VpnIp, DefaultIp}, lp \in LocalPorts, rp \in RemotePorts }

\* inbound packets: they arrive on the interface that owns their destination
InPackets ==
    { [src_addr |-> RemoteIp, src_port |-> rp, dst_addr |-> a,
       dst_port |-> lp, interface |-> CapturedInterface(a)] :
        a \in {VpnIp, DefaultIp}, lp \in LocalPorts, rp \in RemotePorts }

(***************************************************************************)
(* The NAT table is a dict whose iteration order is its insertion order:   *)
(* a sequence of entries, each key once.                                   *)
(***************************************************************************)
DKeys(d) == { d[i].k : i \in 1..Len(d) }
DGet(d, key) ==
    IF key \in DKeys(d)
    THEN (d[CHOOSE i \in 1..Len(d) : d[i].k = key]).v
    ELSE NoneI
\* a dict that moves a key to the end when it is assigned again
DPutMovesToEnd(d, key, val) ==
    Append(SelectSeq(d, LAMBDA e : e.k # key), [k |-> key, v |-> val])
DPut(d, key, val) ==
    IF key \in DKeys(d)
    THEN [i \in 1..Len(d) |-> IF d[i].k = key THEN [k |-> key, v |-> val]
                                              ELSE d[i]]
    ELSE Append(d, [k |-> key, v |-> val])

(***************************************************************************)
(* _resolve_exe and _resolve_port_exe.  Both return the executable and the *)
(* PID cache as they leave it.                                             *)
(***************************************************************************)
_resolve_exe(cache, pid) ==
    IF pid \in DOMAIN cache
    THEN [exe |-> cache[pid], cache |-> cache]
    ELSE LET raw == ProcExe(pid)
         IN  IF Truthy(raw)
             THEN [exe |-> _norm_path(raw),
                   cache |-> Put(cache, pid, _norm_path(raw))]
             ELSE [exe |-> None, cache |-> cache]

\* get_pid_for_tcp_port(port), then get_pid_for_udp_port(port)
PortPids(socks, port) == { s.pid : s \in { x \in socks : x.port = port } }

_resolve_port_exe(cache, socks, port) ==
    IF PortPids(socks, port) = {}
    THEN [exe |-> None, cache |-> cache]
    ELSE _resolve_exe(cache, CHOOSE pid \in PortPids(socks, port) : TRUE)

(***************************************************************************)
(* Capture handles: opening, registering, the loop test and the exit path  *)
(* are the same code in both interceptors.                                 *)
(***************************************************************************)
IsDiverter(t) == t \in Threads /\ Role(t) \in {"out", "in"}

\* w.open() succeeds
DivertOpen(t) ==
    /\ IsDiverter(t)
    /\ thr[t].pc = "start"
    /\ h_open' = h_open \cup {t}
    /\ Goto(t, "register")
    /\ UNCHANGED <<engine_vars, sup_vars, env_vars, evicted>>

\* w.open() raises: log the error and return
DivertOpenFail(t) ==
    /\ IsDiverter(t)
    /\ thr[t].pc = "start"
    /\ Goto(t, "done")
    /\ UNCHANGED <<engine_vars, sup_vars, h_open, env_vars, evicted>>

\* "while not stop()": the loop is left when the stop flag is set.  The test
\* only reads the flag and is taken together with the step before it.
LoopTest == IF stop_event THEN "finally" ELSE "recv"

\* with self._handle_lock: self._outbound_handle = w
DivertRegister(t) ==
    /\ IsDiverter(t)
    /\ thr[t].pc = "register"
    /\ IF Role(t) = "out"
       THEN outbound_handle' = Some(t) /\ UNCHANGED inbound_handle
       ELSE inbound_handle' = Some(t) /\ UNCHANGED outbound_handle
    /\ Goto(t, LoopTest)
    /\ UNCHANGED <<cfg_vars, table_vars, stop_event, threads, running,
                   sup_vars, h_open, env_vars, evicted>>

\* recv() on a closed handle raises: "if stop(): break" else "continue"
DivertRecvClosed(t) ==
    /\ IsDiverter(t)
    /\ thr[t].pc = "recv"
    /\ t \notin h_open
    /\ Goto(t, LoopTest)
    /\ UNCHANGED <<engine_vars, sup_vars, h_open, env_vars, evicted>>

\* send(packet): re-inject on an open handle; on a closed handle send raises
\* and the handler breaks when the stop flag is set, else logs and goes on
DivertSend(t) ==
    /\ IsDiverter(t)
    /\ thr[t].pc = "send"
    /\ IF t \in h_open
       THEN /\ net' = net \cup {[dir |-> Role(t), orig |-> thr[t].orig,
                                   pkt |-> thr[t].pkt]}
            /\ thr' = SetThr(t, [NewThread EXCEPT !.pc = LoopTest])
       ELSE /\ UNCHANGED net
            /\ thr' = SetThr(t, [NewThread EXCEPT !.pc = LoopTest])
    /\ UNCHANGED <<engine_vars, sup_vars, h_open, pydivert_ok, routes,
                   route_failed, route_added, lookup, nat_log, os_socks, held, evicted, hist, n_out, n_in, n_upd>>

\* a recv() that ends its worker whatever the stop flag says
DivertRecvFailsEnds(t) ==
    /\ IsDiverter(t)
    /\ thr[t].pc = "recv"
    /\ t \in h_open
    /\ Goto(t, "finally")
    /\ UNCHANGED <<engine_vars, sup_vars, h_open, env_vars, evicted>>

\* lines 318-323 and 423-428: recv() raises on an open handle (one failed
\* read): "if stop(): break" else "continue"
DivertRecvFails(t) ==
    /\ IsDiverter(t)
    /\ thr[t].pc = "recv"
    /\ t \in h_open
    /\ Goto(t, LoopTest)
    /\ UNCHANGED <<engine_vars, sup_vars, h_open, env_vars, evicted>>

\* lines 386-389 and 448-451: send(packet) raises on an open handle; the
\* packet is not re-injected; "if stop(): break" else log and go on
DivertSendFails(t) ==
    /\ IsDiverter(t)
    /\ thr[t].pc = "send"
    /\ t \in h_open
    /\ thr' = SetThr(t, [NewThread EXCEPT !.pc = LoopTest])
    /\ UNCHANGED <<engine_vars, sup_vars, h_open, env_vars, evicted>>

\* finally: with self._handle_lock: self._outbound_handle = None
DivertFinallySlot(t) ==
    /\ IsDiverter(t)
    /\ thr[t].pc = "finally"
    /\ IF Role(t) = "out"
       THEN outbound_handle' = NoneI /\ UNCHANGED inbound_handle
       ELSE inbound_handle' = NoneI /\ UNCHANGED outbound_handle
    /\ Goto(t, "close")
    /\ UNCHANGED <<cfg_vars, table_vars, stop_event, threads, running,
                   sup_vars, h_open, env_vars, evicted>>

\* finally: w.close() (an error of close is swallowed), then return
DivertFinallyClose(t) ==
    /\ IsDiverter(t)
    /\ thr[t].pc = "close"
    /\ h_open' = h_open \ {t}
    /\ thr' = SetThr(t, DoneThread)
    /\ UNCHANGED <<engine_vars, sup_vars, env_vars, evicted>>

(***************************************************************************)
(* Outbound interceptor: one packet.                                       *)
(***************************************************************************)
\* no fast path: every packet goes to the attribution
FastPathMissing(m, src_ip) == FALSE

\* lines 336-344: the packet is already on the interface of the mode
FastPath(m, src_ip) ==
    IF m = "vpn_default" THEN src_ip = default_ip
    ELSE IF m = "direct_default" THEN src_ip = vpn_ip
    ELSE FALSE

\* an attribution that asks the synchronous resolver and not the tables
AttributeResolverOnly(p) ==
    _resolve_port_exe(pid_cache, os_socks, p.src_port)

\* lines 348-356: conn_table, then port_table, then the synchronous resolver
Attribute(p) ==
    LET e1 == Get(conn_table, <<p.src_addr, p.src_port>>)
        e2 == IF e1 = None THEN Get(port_table, p.src_port) ELSE e1
    IN  IF e2 = None
        THEN _resolve_port_exe(pid_cache, os_socks, p.src_port)
        ELSE [exe |-> e2, cache |-> pid_cache]

\* the gate without its membership test: only unattributed packets pass
PassesUnchangedNoPolicy(exe) == ~Truthy(exe)

\* line 357: "if not exe or exe not in self._toggled_apps"
PassesUnchanged(exe) == ~Truthy(exe) \/ exe \notin toggled_apps

\* the two branches of lines 365-370 exchanged
RewriteTargetSwapped(m) ==
    IF m = "vpn_default" THEN <<vpn_ip, vpn_if_index>>
                         ELSE <<default_ip, default_if_index>>

\* lines 365-370: (new_src_ip, target_if_index) for the mode read at line 336
RewriteTarget(m) ==
    IF m = "vpn_default" THEN <<default_ip, default_if_index>>
                         ELSE <<vpn_ip, vpn_if_index>>

\* line 374: nat_key, and line 376: the value stored under it
NatKey(p) == <<p.dst_addr, p.dst_port, p.src_port>>
NatValue(p) == <<p.src_addr, p.interface[1]>>

\* lines 378-382: packet.src_addr = new_src_ip; packet.interface = (idx, 0)
Rewrite(p, new_src_ip, target_if_index) ==
    [p EXCEPT !.src_addr = new_src_ip,
              !.interface = IF target_if_index # NoneI
                            THEN <<target_if_index[1], 0>>
                            ELSE @]

\* lines 319-344: recv() returns a packet; read the mode; fast path
OutRecv(t, p) ==
    /\ t \in Threads /\ Role(t) = "out"
    /\ thr[t].pc = "recv"
    /\ t \in h_open
    /\ n_out' = n_out + 1
    /\ thr' = SetThr(t, [NewThread EXCEPT
                           !.pc = IF FastPath(mode, p.src_addr)
                                  THEN "send" ELSE "attr",
                           !.pkt = p, !.orig = p, !.lmode = mode])
    /\ UNCHANGED <<engine_vars, sup_vars, h_open, pydivert_ok, routes,
                   route_failed, route_added, lookup, nat_log, os_socks, held, evicted, net, hist, n_in, n_upd>>

\* a slow path that reads self._mode again for its target
OutAttributeRereadsMode(t) ==
    /\ t \in Threads /\ Role(t) = "out"
    /\ thr[t].pc = "attr"
    /\ LET a == Attribute(thr[t].pkt)
       IN  /\ pid_cache' = a.cache
           /\ IF PassesUnchanged(a.exe)
              THEN Goto(t, "send")
              ELSE thr' = [thr EXCEPT ![t].pc = "nat",
                                      ![t].rw = RewriteTarget(mode)]
    /\ UNCHANGED <<cfg_vars, conn_table, port_table, nat_table, stop_event,
                   threads, running, outbound_handle, inbound_handle,
                   sup_vars, h_open, env_vars, evicted>>

\* lines 346-370: attribute the packet, test the policy, pick the target
OutAttribute(t) ==
    /\ t \in Threads /\ Role(t) = "out"
    /\ thr[t].pc = "attr"
    /\ LET a == Attribute(thr[t].pkt)
       IN  /\ pid_cache' = a.cache
           /\ IF PassesUnchanged(a.exe)
              THEN Goto(t, "send")
              ELSE thr' = [thr EXCEPT ![t].pc = "nat",
                                      ![t].rw = RewriteTarget(thr[t].lmode)]
    /\ UNCHANGED <<cfg_vars, conn_table, port_table, nat_table, stop_event,
                   threads, running, outbound_handle, inbound_handle,
                   sup_vars, h_open, env_vars, evicted>>

\* the slow path without its insertion: the packet is rewritten and goes to
\* send(packet) with no NAT entry written
OutInsertNatSkipped(t) ==
    /\ t \in Threads /\ Role(t) = "out"
    /\ thr[t].pc = "nat"
    /\ thr' = [thr EXCEPT ![t].pc = "send",
                          ![t].pkt = Rewrite(@, thr[t].rw[1], thr[t].rw[2])]
    /\ UNCHANGED <<engine_vars, sup_vars, h_open, env_vars, evicted>>

\* lines 372-382: insert the NAT entry under _nat_lock, then rewrite
OutInsertNat(t) ==
    /\ t \in Threads /\ Role(t) = "out"
    /\ thr[t].pc = "nat"
    /\ nat_table' = DPut(nat_table, NatKey(thr[t].pkt), NatValue(thr[t].pkt))
    /\ thr' = [thr EXCEPT ![t].pc = "send",
                          ![t].pkt = Rewrite(@, thr[t].rw[1], thr[t].rw[2])]
    /\ UNCHANGED <<cfg_vars, conn_table, port_table, pid_cache, stop_event,
                   threads, running, outbound_handle, inbound_handle,
                   sup_vars, h_open, env_vars, evicted>>

(***************************************************************************)
(* Inbound interceptor: one packet.                                        *)
(***************************************************************************)
\* the key with its two ports exchanged
InNatKeySwapped(p) == <<p.src_addr, p.dst_port, p.src_port>>

\* lines 434-436: the key the inbound packet is looked up under
InNatKey(p) == <<p.src_addr, p.src_port, p.dst_port>>

\* the reverse NAT without line 444: the interface is left as captured
ReverseNatKeepsInterface(p, nat_entry) ==
    IF nat_entry # NoneI /\ p.dst_addr # nat_entry[1]
    THEN [p EXCEPT !.dst_addr = nat_entry[1]]
    ELSE p

\* lines 438-444: restore the destination and the interface
ReverseNat(p, nat_entry) ==
    IF nat_entry # NoneI /\ p.dst_addr # nat_entry[1]
    THEN [p EXCEPT !.dst_addr = nat_entry[1],
                   !.interface = <<nat_entry[2], 0>>]
    ELSE p

\* lines 424-444: recv() returns a packet; lock-free lookup; reverse NAT.
\* rw keeps the nat_entry that the lookup returned.
InRecv(t, p) ==
    /\ t \in Threads /\ Role(t) = "in"
    /\ thr[t].pc = "recv"
    /\ t \in h_open
    /\ n_in' = n_in + 1
    /\ thr' = SetThr(t, [NewThread EXCEPT
                           !.pc = "send",
                           !.orig = p,
                           !.rw = DGet(nat_table, InNatKey(p)),
                           !.pkt = ReverseNat(p, DGet(nat_table, InNatKey(p)))])
    /\ UNCHANGED <<engine_vars, sup_vars, h_open, pydivert_ok, routes,
                   route_failed, route_added, lookup, nat_log, os_socks, held, evicted, net, hist, n_out, n_upd>>

(***************************************************************************)
(* Connection tracker.                                                     *)
(***************************************************************************)
\* the orders in which psutil.net_connections() may list the sockets
Listings(S) ==
    { q \in [1..Cardinality(S) -> S] :
        \A i, j \in 1..Cardinality(S) : i # j => q[i] # q[j] }

\* one socket of the listing indexed under its own address only
TrackOneNoWildcard(acc, c) ==
    LET r == _resolve_exe(acc.cache, c.pid)
    IN  IF ~Truthy(r.exe)
        THEN [acc EXCEPT !.alive = @ \cup {c.pid}, !.cache = r.cache]
        ELSE [table |-> Put(acc.table, <<c.ip, c.port>>, r.exe),
              ports |-> Put(acc.ports, c.port, r.exe),
              alive |-> acc.alive \cup {c.pid}, cache |-> r.cache]

\* lines 244-268: one socket of the listing
TrackOne(acc, c) ==
    LET r == _resolve_exe(acc.cache, c.pid)
        t1 == Put(acc.table, <<c.ip, c.port>>, r.exe)
        t2 == IF c.ip \in {Wildcard, "::"} /\ Truthy(vpn_ip)
              THEN Put(t1, <<vpn_ip, c.port>>, r.exe) ELSE t1
        t3 == IF c.ip \in {Wildcard, "::"} /\ Truthy(default_ip)
              THEN Put(t2, <<default_ip, c.port>>, r.exe) ELSE t2
    IN  IF ~Truthy(r.exe)
        THEN [acc EXCEPT !.alive = @ \cup {c.pid}, !.cache = r.cache]
        ELSE [table |-> t3, ports |-> Put(acc.ports, c.port, r.exe),
              alive |-> acc.alive \cup {c.pid}, cache |-> r.cache]

RECURSIVE TrackAll(_, _)
TrackAll(acc, listing) ==
    IF listing = << >> THEN acc
    ELSE TrackAll(TrackOne(acc, Head(listing)), Tail(listing))

\* a prune that drops the newest half instead
cleanup_nat_table_newest(d, max_entries) ==
    IF Len(d) > max_entries
    THEN SubSeq(d, 1, Len(d) - (Len(d) \div 2))
    ELSE d

\* cleanup_nat_table(max_entries): drop the oldest half when over the bound
cleanup_nat_table(d, max_entries) ==
    IF Len(d) > max_entries
    THEN SubSeq(d, (Len(d) \div 2) + 1, Len(d))
    ELSE d

\* line 238: while not self._stop_event.is_set(), for a tracker that runs
\* at most max_cycles cycles
TrackerLoopTestUpTo(t, max_cycles) ==
    /\ t \in Threads /\ Role(t) = "conn"
    /\ thr[t].pc \in {"start", "loop"}
    /\ IF stop_event
       THEN thr' = SetThr(t, DoneThread)
       ELSE thr[t].cycles < max_cycles /\ Goto(t, "cycle")
    /\ UNCHANGED <<engine_vars, sup_vars, h_open, env_vars, evicted>>

TrackerLoopTest(t) == TrackerLoopTestUpTo(t, MaxCycles)

\* the two most recent of the snapshots q followed by alive
LastTwo(q, alive) ==
    IF Len(q) < 2 THEN Append(q, alive) ELSE <<q[2], alive>>

\* a count that leaves out the cycles whose enumeration raised
TrackerCountSkipsFailed(t, nat, snaps, fails) ==
    IF fails = 0 /\ thr[t].cycles + 1 >= NAT_CLEANUP_EVERY
    THEN /\ thr' = [thr EXCEPT ![t].pc = "loop", ![t].cycles = 0,
                               ![t].snaps = snaps, ![t].fails = fails,
                               ![t].total = @ + 1, ![t].prunes = @ + 1]
         /\ nat_table' = cleanup_nat_table(nat, NatMaxEntries)
         /\ evicted' = evicted \cup (DKeys(nat) \ DKeys(nat_table'))
    ELSE /\ thr' = [thr EXCEPT ![t].pc = "loop",
                               ![t].cycles = IF fails = 0 THEN @ + 1 ELSE @,
                               ![t].snaps = snaps, ![t].fails = fails,
                               ![t].total = @ + 1]
         /\ nat_table' = nat
         /\ evicted' = evicted

\* lines 284-289: count the cycle, prune the NAT table every 50th, wait
TrackerCount(t, nat, snaps, fails) ==
    IF thr[t].cycles + 1 >= NAT_CLEANUP_EVERY
    THEN /\ thr' = [thr EXCEPT ![t].pc = "loop", ![t].cycles = 0,
                               ![t].snaps = snaps, ![t].fails = fails,
                               ![t].total = @ + 1, ![t].prunes = @ + 1]
         /\ nat_table' = cleanup_nat_table(nat, NatMaxEntries)
         /\ evicted' = evicted \cup (DKeys(nat) \ DKeys(nat_table'))
    ELSE /\ thr' = [thr EXCEPT ![t].pc = "loop", ![t].cycles = @ + 1,
                               ![t].snaps = snaps, ![t].fails = fails,
                               ![t].total = @ + 1]
         /\ nat_table' = nat
         /\ evicted' = evicted

\* a cycle that adds to the published tables instead of rebuilding them
TrackerCycleAccumulates(t) ==
    /\ t \in Threads /\ Role(t) = "conn"
    /\ thr[t].pc = "cycle"
    /\ \E listing \in Listings(os_socks) :
         LET acc == TrackAll([table |-> conn_table, ports |-> port_table,
                              alive |-> {}, cache |-> pid_cache], listing)
         IN  /\ conn_table' = acc.table
             /\ port_table' = acc.ports
             /\ pid_cache' = [pid \in DOMAIN acc.cache \cap acc.alive |->
                                acc.cache[pid]]
             /\ TrackerCount(t, nat_table, LastTwo(thr[t].snaps, acc.alive),
                             0)
    /\ UNCHANGED <<cfg_vars, stop_event, threads, running, outbound_handle,
                   inbound_handle, sup_vars, h_open, env_vars>>

\* lines 239-289: one cycle whose enumeration succeeds
TrackerCycle(t) ==
    /\ t \in Threads /\ Role(t) = "conn"
    /\ thr[t].pc = "cycle"
    /\ \E listing \in Listings(os_socks) :
         LET acc == TrackAll([table |-> EmptyMap, ports |-> EmptyMap,
                              alive |-> {}, cache |-> pid_cache], listing)
         IN  /\ conn_table' = acc.table
             /\ port_table' = acc.ports
             /\ pid_cache' = [pid \in DOMAIN acc.cache \cap acc.alive |->
                                acc.cache[pid]]
             /\ TrackerCount(t, nat_table, LastTwo(thr[t].snaps, acc.alive),
                             0)
    /\ UNCHANGED <<cfg_vars, stop_event, threads, running, outbound_handle,
                   inbound_handle, sup_vars, h_open, env_vars>>

\* a failed enumeration that publishes the empty tables it had built
TrackerCycleFailPublishes(t) ==
    /\ t \in Threads /\ Role(t) = "conn"
    /\ thr[t].pc = "cycle"
    /\ conn_table' = EmptyMap
    /\ port_table' = EmptyMap
    /\ TrackerCount(t, nat_table, thr[t].snaps, thr[t].fails + 1)
    /\ UNCHANGED <<cfg_vars, pid_cache, stop_event,
                   threads, running, outbound_handle, inbound_handle,
                   sup_vars, h_open, env_vars>>

\* lines 280-289: one cycle whose enumeration raises
TrackerCycleFail(t) ==
    /\ t \in Threads /\ Role(t) = "conn"
    /\ thr[t].pc = "cycle"
    /\ TrackerCount(t, nat_table, thr[t].snaps, thr[t].fails + 1)
    /\ UNCHANGED <<cfg_vars, conn_table, port_table, pid_cache, stop_event,
                   threads, running, outbound_handle, inbound_handle,
                   sup_vars, h_open, env_vars>>

(***************************************************************************)
(* The specification.                                                      *)
(***************************************************************************)

Workers ==
    \/ \E t \in ThreadIds : DivertOpen(t)
    \/ \E t \in ThreadIds : DivertRegister(t)
    \/ \E t \in ThreadIds : DivertRecvClosed(t)
    \/ \E t \in ThreadIds : DivertFinallySlot(t)
    \/ \E t \in ThreadIds : DivertFinallyClose(t)
    \/ \E t \in ThreadIds : TrackerLoopTest(t)
    \/ \E t \in ThreadIds : TrackerCycle(t)

\* a capture handle that cannot be opened, a socket enumeration that raises
Faults ==
    \/ \E t \in ThreadIds : DivertOpenFail(t)
    \/ \E t \in ThreadIds : TrackerCycleFail(t)

Supervisor ==
    \/ StartConfig
    \/ StartSpawn
    \/ StopClose
    \/ StopJoin
    \/ StopClear

Packets ==
    \/ \E t \in ThreadIds, p \in OutPackets :
         n_out < MaxOutPkts /\ OutRecv(t, p)
    \/ \E t \in ThreadIds : OutAttribute(t)
    \/ \E t \in ThreadIds : OutInsertNat(t)
    \/ \E t \in ThreadIds, p \in InPackets :
         n_in < MaxInPkts /\ InRecv(t, p)
    \/ \E t \in ThreadIds : DivertSend(t)
    \/ \E apps \in PolicySets :
         n_upd < MaxUpdates /\ Updatable /\ update_policy(apps)
    \/ \E m \in Modes : n_upd < MaxUpdates /\ Updatable /\ update_mode(m)

\* The packet path: the traffic of the engine over its first MaxRunCalls
\* calls start(c); stop(); ... (start on an engine that is not running), on
\* a host that carries out the route
\* commands, opens the capture handles and lists its sockets.
OneRun == hist # Other /\ Len(hist) < MaxRunCalls

Next ==
    \/ \E c \in Configs : OneRun /\ ~running /\ StartCall(c)
    \/ OneRun /\ StopCall
    \/ StartRoutes(_SPLIT_ROUTES)
    \/ StopRoutes(_SPLIT_ROUTES)
    \/ Supervisor
    \/ Workers
    \/ Packets

Spec == Init /\ [][Next]_vars

\* The life cycle: every sequence of start and stop calls, with the workers
\* and with route commands, capture handles and socket listings that may
\* fail.
NextLife ==
    \/ \E c \in Configs : StartCall(c)
    \/ StopCall
    \/ \E ok \in SUBSET _SPLIT_ROUTES : StartRoutes(ok)
    \/ \E ok \in SUBSET _SPLIT_ROUTES : StopRoutes(ok)
    \/ Supervisor
    \/ Workers
    \/ Faults

SpecLife == Init /\ [][NextLife]_vars

\* One run under live updates: a single start(c) on a host that carries out
\* the route commands and opens the capture handles, the traffic of the run
\* and the calls of update_policy and update_mode.
NextPolicy ==
    \/ \E c \in Configs : hist = << >> /\ pydivert_ok /\ StartCall(c)
    \/ StartConfig
    \/ StartRoutes(_SPLIT_ROUTES)
    \/ StartSpawn
    \/ \E t \in ThreadIds : DivertOpen(t)
    \/ \E t \in ThreadIds : DivertRegister(t)
    \/ \E t \in ThreadIds : TrackerLoopTest(t)
    \/ \E t \in ThreadIds : TrackerCycle(t)
    \/ \E t \in ThreadIds, p \in OutPackets :
         n_out < MaxPolicyOut /\ OutRecv(t, p)
    \/ \E t \in ThreadIds : OutAttribute(t)
    \/ \E t \in ThreadIds : OutInsertNat(t)
    \/ \E t \in ThreadIds, p \in InPackets :
         n_in < MaxPolicyIn /\ InRecv(t, p)
    \/ \E t \in ThreadIds : DivertSend(t)
    \/ \E apps \in PolicySets :
         n_upd < MaxPolicyUpdates /\ Updatable /\ update_policy(apps)
    \/ \E m \in Modes :
         n_upd < MaxPolicyUpdates /\ Updatable /\ update_mode(m)

SpecPolicy == Init /\ [][NextPolicy]_vars

\* The tracker beside the outbound worker on a host whose sockets come and
\* go: one start(c), tracker cycles whose enumeration succeeds or raises,
\* and outbound packets that are attributed.
SocketUniverse ==
    HostSockets \cup { [ip |-> Wildcard, port |-> 5000, pid |-> 12] }

\* a local process opens a socket
SocketOpen(s) ==
    /\ s \notin os_socks
    /\ os_socks' = os_socks \cup {s}
    /\ UNCHANGED <<engine_vars, sup_vars, thr, h_open, pydivert_ok, routes,
                   route_failed, route_added, lookup, nat_log, held, evicted, net, hist, n_out, n_in,
                   n_upd>>

\* a local process closes a socket, or exits
SocketClose(s) ==
    /\ s \in os_socks
    /\ os_socks' = os_socks \ {s}
    /\ UNCHANGED <<engine_vars, sup_vars, thr, h_open, pydivert_ok, routes,
                   route_failed, route_added, lookup, nat_log, held, evicted, net, hist, n_out, n_in,
                   n_upd>>

NextTracker ==
    \/ \E c \in Configs : hist = << >> /\ pydivert_ok /\ StartCall(c)
    \/ StartConfig
    \/ StartRoutes(_SPLIT_ROUTES)
    \/ StartSpawn
    \/ \E t \in ThreadIds : DivertOpen(t)
    \/ \E t \in ThreadIds : DivertRegister(t)
    \/ \E t \in ThreadIds : TrackerLoopTestUpTo(t, MaxTrackerCycles)
    \/ \E t \in ThreadIds : TrackerCycle(t)
    \/ \E t \in ThreadIds : TrackerCycleFail(t)
    \/ \E s \in SocketUniverse : SocketOpen(s)
    \/ \E s \in SocketUniverse : SocketClose(s)
    \/ \E t \in ThreadIds, p \in OutPackets :
         n_out < MaxTrackerOut /\ OutRecv(t, p)
    \/ \E t \in ThreadIds : OutAttribute(t)
    \/ \E t \in ThreadIds : OutInsertNat(t)
    \/ \E t \in ThreadIds : DivertSend(t)

SpecTracker == Init /\ [][NextTracker]_vars

\* The NAT table on its own: insertions as line 376 makes them and prunes
\* with the bound as a parameter, from the empty table of a constructed
\* engine.
NatKeys == { <<RemoteIp, 443, lp>> : lp \in 1..MaxNatKeys }
NatValues == { <<VpnIp, 3>>, <<DefaultIp, 7>> }
NatCaps == 1..MaxNatCap

\* line 376: self._nat_table[nat_key] = (src_ip, orig_if_idx)
NatInsert(key, val) ==
    /\ nat_table' = DPut(nat_table, key, val)
    /\ UNCHANGED <<cfg_vars, conn_table, port_table, pid_cache, stop_event,
                   threads, running, outbound_handle, inbound_handle,
                   sup_vars, thr, h_open, env_vars, evicted>>

\* lines 464-471: cleanup_nat_table(max_entries)
NatCleanup(max_entries) ==
    /\ nat_table' = cleanup_nat_table(nat_table, max_entries)
    /\ evicted' = evicted \cup (DKeys(nat_table) \ DKeys(nat_table'))
    /\ UNCHANGED <<cfg_vars, conn_table, port_table, pid_cache, stop_event,
                   threads, running, outbound_handle, inbound_handle,
                   sup_vars, thr, h_open, env_vars>>

NextNat ==
    \/ \E key \in NatKeys, val \in NatValues : NatInsert(key, val)
    \/ \E max_entries \in NatCaps : NatCleanup(max_entries)

SpecNat == Init /\ [][NextNat]_vars

\* The life cycle with joins that time out: a worker may outlive the stop()
\* that joined it.  The calls are the first MaxTimeoutCalls calls of
\* start(c); stop(); start(c); stop() or of start(c); stop(); stop(), with
\* the configuration of the first gateway, and a
\* start() is called only when its threads fit in MaxThreads.  Every worker
\* that can take a step eventually takes one, and so does the caller inside
\* start() and stop().
TimeoutConfigs == { c \in Configs : c.default_gateway = "192.168.1.1" }
ThreadsFit == AllReturned \/ Len(thr) + 3 <= MaxThreads
TimeoutRun == hist # Other /\ Len(hist) < MaxTimeoutCalls

WorkerStep(t) ==
    \/ DivertOpen(t)
    \/ DivertRegister(t)
    \/ DivertRecvClosed(t)
    \/ DivertFinallySlot(t)
    \/ DivertFinallyClose(t)
    \/ TrackerLoopTest(t)
    \/ TrackerCycle(t)

SupervisorStep ==
    \/ Supervisor
    \/ StopJoinTimeout
    \/ StartRoutes(_SPLIT_ROUTES)
    \/ StopRoutes(_SPLIT_ROUTES)

NextTimeout ==
    \/ \E c \in TimeoutConfigs : TimeoutRun /\ ThreadsFit /\ StartCall(c)
    \/ TimeoutRun /\ StopCall
    \/ SupervisorStep
    \/ \E t \in ThreadIds : WorkerStep(t)

FairTimeout ==
    /\ WF_vars(SupervisorStep)
    /\ \A t \in ThreadIds : WF_vars(WorkerStep(t))

SpecTimeout == Init /\ [][NextTimeout]_vars /\ FairTimeout

\* One start(c) and one stop() of the running engine with every shutdown
\* step free to fail: route commands, close() of a handle, joins that time
\* out, while the workers open their handles, run tracker cycles and
\* process an outbound packet.  The steps of the caller's thread are taken
\* when they can be; no worker is required to make progress.
StopStep ==
    \/ StartConfig
    \/ StartRoutes(_SPLIT_ROUTES)
    \/ StartSpawn
    \/ \E ok \in SUBSET _SPLIT_ROUTES : StopRoutes(ok)
    \/ StopClose
    \/ \E failed \in SUBSET ThreadIds : StopCloseFails(failed)
    \/ StopJoin
    \/ StopJoinTimeout
    \/ StopClear

NextStop ==
    \/ \E c \in TimeoutConfigs : hist = << >> /\ pydivert_ok /\ StartCall(c)
    \/ Len(hist) = 1 /\ running /\ StopCall
    \/ StopStep
    \/ \E t \in ThreadIds : WorkerStep(t)
    \/ \E t \in ThreadIds, p \in OutPackets :
         n_out < MaxOutPkts /\ OutRecv(t, p)
    \/ \E t \in ThreadIds : OutAttribute(t)
    \/ \E t \in ThreadIds : OutInsertNat(t)
    \/ \E t \in ThreadIds : DivertSend(t)

FairStop == WF_vars(StopStep)

SpecStop == Init /\ [][NextStop]_vars /\ FairStop

\* Route programming: every sequence of start and stop calls with the
\* workers, over configurations with and without a gateway and an interface
\* index, and with route commands that may fail.
RouteConfigs ==
    { c \in Configs : c.mode = "vpn_default" }
    \cup { [mode |-> "vpn_default", vpn_ip |-> VpnIp, default_ip |-> DefaultIp,
            toggled_apps |-> {}, vpn_if_index |-> Some(3),
            default_if_index |-> NoneI, default_gateway |-> "192.168.1.254"],
           [mode |-> "vpn_default", vpn_ip |-> VpnIp, default_ip |-> DefaultIp,
            toggled_apps |-> {}, vpn_if_index |-> Some(3),
            default_if_index |-> Some(8), default_gateway |-> None],
           [mode |-> "vpn_default", vpn_ip |-> VpnIp, default_ip |-> DefaultIp,
            toggled_apps |-> {}, vpn_if_index |-> Some(3),
            default_if_index |-> Some(8), default_gateway |-> "192.168.1.254"] }

NextRoutes ==
    \/ \E c \in RouteConfigs : StartCall(c)
    \/ StopCall
    \/ \E ok \in SUBSET _SPLIT_ROUTES : StartRoutes(ok)
    \/ \E ok \in SUBSET _SPLIT_ROUTES : StopRoutes(ok)
    \/ Supervisor
    \/ Workers

SpecRoutes == Init /\ [][NextRoutes]_vars

\* Single failures of recv and send: one start(c) and one stop() with the
\* workers, outbound and inbound packets, and reads and re-injections that
\* may fail on an open handle.
NextTransient ==
    \/ \E c \in TimeoutConfigs : hist = << >> /\ pydivert_ok /\ StartCall(c)
    \/ Len(hist) = 1 /\ running /\ StopCall
    \/ StartConfig
    \/ StartRoutes(_SPLIT_ROUTES)
    \/ StartSpawn
    \/ StopRoutes(_SPLIT_ROUTES)
    \/ StopClose
    \/ StopJoin
    \/ StopClear
    \/ \E t \in ThreadIds : WorkerStep(t)
    \/ \E t \in ThreadIds, p \in OutPackets :
         n_out < MaxTransientOut /\ p.src_port = 44000 /\ OutRecv(t, p)
    \/ \E t \in ThreadIds : OutAttribute(t)
    \/ \E t \in ThreadIds : OutInsertNat(t)
    \/ \E t \in ThreadIds, p \in InPackets :
         n_in < MaxInPkts /\ p.dst_port = 44000 /\ InRecv(t, p)
    \/ \E t \in ThreadIds : DivertSend(t)
    \/ \E t \in ThreadIds : DivertRecvFails(t)
    \/ \E t \in ThreadIds : DivertSendFails(t)

SpecTransient == Init /\ [][NextTransient]_vars

\* cleanup_nat_table and the NAT insertion step by step.  _nat_lock is held
\* by the thread that is inside "with self._nat_lock".
NatLockFree == \A t \in Threads : thr[t].pc # "prune"

\* the keys of the first half of the dict, in insertion order
OldestHalf(d) == [i \in 1..(Len(d) \div 2) |-> d[i].k]

\* the dict without its entry for key
DDel(d, key) ==
    LET i == CHOOSE j \in 1..Len(d) : d[j].k = key
    IN  SubSeq(d, 1, i - 1) \o SubSeq(d, i + 1, Len(d))

\* line 287 and lines 466-470, on the thread of a tracker that has counted
\* its cycles to NAT_CLEANUP_EVERY: take _nat_lock, test the size, list the
\* keys
PruneBegin(t, max_entries) ==
    /\ t \in Threads /\ Role(t) = "conn"
    /\ thr[t].pc = "loop"
    /\ NatLockFree
    /\ thr' = [thr EXCEPT ![t].pc = "prune",
                          ![t].keys = IF Len(nat_table) > max_entries
                                      THEN OldestHalf(nat_table)
                                      ELSE << >>]
    /\ UNCHANGED <<engine_vars, sup_vars, h_open, env_vars, evicted>>

\* line 471: del self._nat_table[k] for the next key of the list; a key the
\* dict does not hold raises KeyError, which leaves the with block and ends
\* the tracker's thread (line 287 is outside the try of the loop)
PruneDelete(t) ==
    /\ t \in Threads /\ Role(t) = "conn"
    /\ thr[t].pc = "prune"
    /\ thr[t].keys # << >>
    /\ IF Head(thr[t].keys) \in DKeys(nat_table)
       THEN /\ nat_table' = DDel(nat_table, Head(thr[t].keys))
            /\ evicted' = evicted \cup {Head(thr[t].keys)}
            /\ thr' = [thr EXCEPT ![t].keys = Tail(@)]
       ELSE /\ UNCHANGED <<nat_table, evicted>>
            /\ thr' = SetThr(t, DoneThread)
    /\ UNCHANGED <<cfg_vars, conn_table, port_table, pid_cache, stop_event,
                   threads, running, outbound_handle, inbound_handle,
                   sup_vars, h_open, env_vars>>

\* the with block of cleanup_nat_table is left: _nat_lock is released
PruneEnd(t) ==
    /\ t \in Threads /\ Role(t) = "conn"
    /\ thr[t].pc = "prune"
    /\ thr[t].keys = << >>
    /\ Goto(t, "loop")
    /\ UNCHANGED <<engine_vars, sup_vars, h_open, env_vars, evicted>>

\* line 375: the insertion waits for _nat_lock
OutInsertLocked(t) == NatLockFree /\ OutInsertNat(t)

\* the browser's packets to two remote ports, and their replies
LockOutPackets ==
    { [src_addr |-> VpnIp, src_port |-> 44000, dst_addr |-> RemoteIp,
       dst_port |-> rp, interface |-> CapturedInterface(VpnIp)] :
        rp \in {443, 80} }
LockInPackets ==
    { [src_addr |-> RemoteIp, src_port |-> rp, dst_addr |-> DefaultIp,
       dst_port |-> 44000, interface |-> CapturedInterface(DefaultIp)] :
        rp \in {443, 80} }

\* start(c); stop(); start(c) where the join of the tracker may time out,
\* with two outbound packets, one inbound packet and prunes with the bound
\* NatLockCap.
NextNatLock ==
    \/ \E c \in TimeoutConfigs : TimeoutRun /\ ThreadsFit /\ StartCall(c)
    \/ TimeoutRun /\ StopCall
    \/ Supervisor
    \/ StartRoutes(_SPLIT_ROUTES)
    \/ StopRoutes(_SPLIT_ROUTES)
    \/ /\ \A i \in 1..Len(threads) :
            Role(threads[i]) # "conn" => thr[threads[i]].pc = "done"
       /\ StopJoinTimeout
    \/ \E t \in ThreadIds : DivertOpen(t)
    \/ \E t \in ThreadIds : DivertRegister(t)
    \/ \E t \in ThreadIds : DivertRecvClosed(t)
    \/ \E t \in ThreadIds : DivertFinallySlot(t)
    \/ \E t \in ThreadIds : DivertFinallyClose(t)
    \/ \E t \in ThreadIds : TrackerLoopTest(t)
    \/ \E t \in ThreadIds : TrackerCycle(t)
    \/ \E t \in ThreadIds : PruneBegin(t, NatLockCap)
    \/ \E t \in ThreadIds : PruneDelete(t)
    \/ \E t \in ThreadIds : PruneEnd(t)
    \/ \E t \in ThreadIds, p \in LockOutPackets :
         n_out < MaxLockOut /\ OutRecv(t, p)
    \/ \E t \in ThreadIds : OutAttribute(t)
    \/ \E t \in ThreadIds : OutInsertLocked(t)
    \/ \E t \in ThreadIds, p \in LockInPackets :
         n_in < MaxInPkts /\ InRecv(t, p)
    \/ \E t \in ThreadIds : DivertSend(t)

SpecNatLock == Init /\ [][NextNatLock]_vars

\* The tracker's cycle step by step: the enumeration, one connection of the
\* for loop at a time, the two assignments that publish the tables, then
\* the PID cache and the count.
\* line 244: psutil.net_connections() returns; lines 240-242: fresh locals
TrackerEnumerate(t) ==
    /\ t \in Threads /\ Role(t) = "conn"
    /\ thr[t].pc = "cycle"
    /\ \E listing \in Listings(os_socks) :
         thr' = [thr EXCEPT ![t].pc = "build", ![t].conns = listing,
                            ![t].new_table = EmptyMap,
                            ![t].new_port_table = EmptyMap,
                            ![t].alive_pids = {}]
    /\ UNCHANGED <<engine_vars, sup_vars, h_open, env_vars, evicted>>

\* a for loop that fills the published conn_table in place
TrackerBuildOneInPlace(t) ==
    /\ t \in Threads /\ Role(t) = "conn"
    /\ thr[t].pc = "build"
    /\ thr[t].conns # << >>
    /\ LET acc == TrackOne([table |-> thr[t].new_table,
                            ports |-> thr[t].new_port_table,
                            alive |-> thr[t].alive_pids,
                            cache |-> pid_cache], Head(thr[t].conns))
       IN  /\ thr' = [thr EXCEPT ![t].conns = Tail(@),
                                 ![t].new_table = acc.table,
                                 ![t].new_port_table = acc.ports,
                                 ![t].alive_pids = acc.alive]
           /\ pid_cache' = acc.cache
           /\ conn_table' = acc.table
    /\ UNCHANGED <<cfg_vars, port_table, nat_table, stop_event,
                   threads, running, outbound_handle, inbound_handle,
                   sup_vars, h_open, env_vars, evicted>>

\* lines 244-268: one connection of the for loop, into the local tables
\* (_resolve_exe writes the shared PID cache in place)
TrackerBuildOne(t) ==
    /\ t \in Threads /\ Role(t) = "conn"
    /\ thr[t].pc = "build"
    /\ thr[t].conns # << >>
    /\ LET acc == TrackOne([table |-> thr[t].new_table,
                            ports |-> thr[t].new_port_table,
                            alive |-> thr[t].alive_pids,
                            cache |-> pid_cache], Head(thr[t].conns))
       IN  /\ thr' = [thr EXCEPT ![t].conns = Tail(@),
                                 ![t].new_table = acc.table,
                                 ![t].new_port_table = acc.ports,
                                 ![t].alive_pids = acc.alive]
           /\ pid_cache' = acc.cache
    /\ UNCHANGED <<cfg_vars, conn_table, port_table, nat_table, stop_event,
                   threads, running, outbound_handle, inbound_handle,
                   sup_vars, h_open, env_vars, evicted>>

\* line 270: self._conn_table = new_table
TrackerPublishConn(t) ==
    /\ t \in Threads /\ Role(t) = "conn"
    /\ thr[t].pc = "build"
    /\ thr[t].conns = << >>
    /\ conn_table' = thr[t].new_table
    /\ Goto(t, "publish")
    /\ UNCHANGED <<cfg_vars, port_table, pid_cache, nat_table, stop_event,
                   threads, running, outbound_handle, inbound_handle,
                   sup_vars, h_open, env_vars, evicted>>

\* line 271: self._port_table = new_port_table
TrackerPublishPort(t) ==
    /\ t \in Threads /\ Role(t) = "conn"
    /\ thr[t].pc = "publish"
    /\ port_table' = thr[t].new_port_table
    /\ Goto(t, "cache")
    /\ UNCHANGED <<cfg_vars, conn_table, pid_cache, nat_table, stop_event,
                   threads, running, outbound_handle, inbound_handle,
                   sup_vars, h_open, env_vars, evicted>>

\* lines 274-289: rebuild the PID cache from alive_pids, count the cycle
TrackerPruneCache(t) ==
    /\ t \in Threads /\ Role(t) = "conn"
    /\ thr[t].pc = "cache"
    /\ pid_cache' = [pid \in DOMAIN pid_cache \cap thr[t].alive_pids |->
                       pid_cache[pid]]
    /\ TrackerCount(t, nat_table, LastTwo(thr[t].snaps, thr[t].alive_pids),
                    0)
    /\ UNCHANGED <<cfg_vars, conn_table, port_table, stop_event, threads,
                   running, outbound_handle, inbound_handle, sup_vars,
                   h_open, env_vars>>

NextBuild ==
    \/ \E c \in TimeoutConfigs : hist = << >> /\ pydivert_ok /\ StartCall(c)
    \/ StartConfig
    \/ StartRoutes(_SPLIT_ROUTES)
    \/ StartSpawn
    \/ \E t \in ThreadIds : DivertOpen(t)
    \/ \E t \in ThreadIds : DivertRegister(t)
    \/ \E t \in ThreadIds : TrackerLoopTestUpTo(t, MaxBuildCycles)
    \/ \E t \in ThreadIds : TrackerEnumerate(t)
    \/ \E t \in ThreadIds : TrackerBuildOne(t)
    \/ \E t \in ThreadIds : TrackerPublishConn(t)
    \/ \E t \in ThreadIds : TrackerPublishPort(t)
    \/ \E t \in ThreadIds : TrackerPruneCache(t)
    \/ \E t \in ThreadIds : TrackerCycleFail(t)
    \/ \E s \in SocketUniverse : SocketOpen(s)
    \/ \E s \in SocketUniverse : SocketClose(s)
    \/ \E t \in ThreadIds, p \in OutPackets :
         n_out < MaxTrackerOut /\ OutRecv(t, p)
    \/ \E t \in ThreadIds : OutAttribute(t)
    \/ \E t \in ThreadIds : OutInsertNat(t)
    \/ \E t \in ThreadIds : DivertSend(t)

SpecBuild == Init /\ [][NextBuild]_vars

(***************************************************************************)
(* port_lookup.py: the synchronous port-to-PID lookup.  A table is the     *)
(* sequence of rows that GetExtendedTcpTable / GetExtendedUdpTable wrote,  *)
(* each row with its local port in network byte order and its owning PID;  *)
(* rets is the sequence of codes that the successive calls return.         *)
(***************************************************************************)
NO_ERROR == 0
ERROR_INSUFFICIENT_BUFFER == 122
ERROR_INVALID_PARAMETER == 87
_MAX_RETRIES == 5

\* ((port >> 8) & 0xFF) | ((port & 0xFF) << 8)
_htons(port) == ((port \div 256) % 256) + ((port % 256) * 256)

\* the retry loop: NO_ERROR breaks, ERROR_INSUFFICIENT_BUFFER grows the
\* buffer and retries, any other code and the fifth retry return None
RECURSIVE TableRetrieved(_, _)
TableRetrieved(rets, attempt) ==
    IF attempt > _MAX_RETRIES \/ attempt > Len(rets) THEN FALSE
    ELSE IF rets[attempt] = NO_ERROR THEN TRUE
    ELSE IF rets[attempt] = ERROR_INSUFFICIENT_BUFFER
         THEN TableRetrieved(rets, attempt + 1)
    ELSE FALSE

\* "for i in range(n): if row.dwLocalPort == net_port: pid = row.dwOwningPid;
\* return pid if pid else None": the first matching row decides
RECURSIVE ScanRows(_, _)
ScanRows(table, net_port) ==
    IF table = << >> THEN NoneI
    ELSE IF Head(table).dwLocalPort = net_port
         THEN IF Head(table).dwOwningPid # 0
              THEN Some(Head(table).dwOwningPid) ELSE NoneI
    ELSE ScanRows(Tail(table), net_port)

get_pid_for_tcp_port(rets, table, port) ==
    IF TableRetrieved(rets, 1) THEN ScanRows(table, _htons(port)) ELSE NoneI

get_pid_for_udp_port(rets, table, port) ==
    IF TableRetrieved(rets, 1) THEN ScanRows(table, _htons(port)) ELSE NoneI

\* get_pid_for_tcp_port(port) or get_pid_for_udp_port(port)
get_pid_for_port(tcp_rets, tcp_table, udp_rets, udp_table, port) ==
    IF get_pid_for_tcp_port(tcp_rets, tcp_table, port) # NoneI
    THEN get_pid_for_tcp_port(tcp_rets, tcp_table, port)
    ELSE get_pid_for_udp_port(udp_rets, udp_table, port)

\* what the OS may return: tables of up to MaxLookupRows rows, a socket
\* without an owning process (TIME_WAIT) having the owner 0
LookupPorts == {44000, 5000}
LookupPids == {0, 11}
LookupRows ==
    { [dwLocalPort |-> _htons(p), dwOwningPid |-> pid] :
        p \in LookupPorts, pid \in LookupPids }
LookupTables ==
    UNION { [1..n -> LookupRows] : n \in 0..MaxLookupRows }
LookupRets ==
    { <<NO_ERROR>>, <<ERROR_INSUFFICIENT_BUFFER, NO_ERROR>>,
      <<ERROR_INVALID_PARAMETER>>,
      <<ERROR_INSUFFICIENT_BUFFER, ERROR_INSUFFICIENT_BUFFER,
        ERROR_INSUFFICIENT_BUFFER, ERROR_INSUFFICIENT_BUFFER,
        ERROR_INSUFFICIENT_BUFFER, NO_ERROR>> }

\* the call get_pid_for_port(port)
GetPidForPort(tcp_rets, tcp_table, udp_rets, udp_table, port) ==
    /\ lookup' = [tcp_rets |-> tcp_rets, tcp_table |-> tcp_table,
                  udp_rets |-> udp_rets, udp_table |-> udp_table,
                  port |-> port,
                  pid |-> get_pid_for_port(tcp_rets, tcp_table, udp_rets,
                                           udp_table, port)]
    /\ UNCHANGED <<engine_vars, sup_vars, thr, h_open, pydivert_ok, routes,
                   route_failed, route_added, nat_log, os_socks, held, net,
                   hist, n_out, n_in, n_upd, evicted>>

NextLookup ==
    /\ lookup = NoLookup
    /\ \E tcp_rets \in LookupRets, tcp_table \in LookupTables,
          udp_rets \in LookupRets, udp_table \in LookupTables,
          port \in LookupPorts :
           GetPidForPort(tcp_rets, tcp_table, udp_rets, udp_table, port)

SpecLookup == Init /\ [][NextLookup]_vars

\* The NAT table with its writes and deletions logged: the assignment of
\* line 376 and the prune of lines 464-471, from the empty table of a
\* constructed engine, for at most MaxNatWrites assignments.
NatPuts(log) == Len(SelectSeq(log, LAMBDA e : e.op = "put"))
NatDeleted(d, d2) ==
    LET gone == SelectSeq(d, LAMBDA e : e.k \notin DKeys(d2))
    IN  [i \in 1..Len(gone) |-> [op |-> "del", k |-> gone[i].k, v |-> NoneI]]

\* line 376: self._nat_table[nat_key] = (src_ip, orig_if_idx)
NatWrite(key, val) ==
    /\ NatPuts(nat_log) < MaxNatWrites
    /\ nat_table' = DPut(nat_table, key, val)
    /\ nat_log' = Append(nat_log, [op |-> "put", k |-> key, v |-> val])
    /\ UNCHANGED <<cfg_vars, conn_table, port_table, pid_cache, stop_event,
                   threads, running, outbound_handle, inbound_handle,
                   sup_vars, thr, h_open, pydivert_ok, routes, route_failed,
                   route_added, lookup, os_socks, held, net, hist, n_out,
                   n_in, n_upd, evicted>>

\* lines 464-471: cleanup_nat_table(max_entries)
NatPrune(max_entries) ==
    /\ nat_table' = cleanup_nat_table(nat_table, max_entries)
    /\ evicted' = evicted \cup (DKeys(nat_table) \ DKeys(nat_table'))
    /\ nat_log' = nat_log \o NatDeleted(nat_table, nat_table')
    /\ UNCHANGED <<cfg_vars, conn_table, port_table, pid_cache, stop_event,
                   threads, running, outbound_handle, inbound_handle,
                   sup_vars, thr, h_open, pydivert_ok, routes, route_failed,
                   route_added, lookup, os_socks, held, net, hist, n_out,
                   n_in, n_upd>>

NextNatAge ==
    \/ \E key \in NatKeys, val \in NatValues : NatWrite(key, val)
    \/ \E max_entries \in NatCaps : NatPrune(max_entries)

SpecNatAge == Init /\ [][NextNatAge]_vars

\* The tracker's cycle count on its own: one start(c) and a tracker that
\* runs cycles, succeeding or failing, past its second NAT prune.
NextPrune ==
    \/ \E c \in TimeoutConfigs : hist = << >> /\ pydivert_ok /\ StartCall(c)
    \/ StartConfig
    \/ StartRoutes(_SPLIT_ROUTES)
    \/ StartSpawn
    \/ \E t \in ThreadIds :
         /\ t \in Threads
         /\ thr[t].total < MaxPruneCycles
         /\ TrackerLoopTestUpTo(t, NAT_CLEANUP_EVERY)
    \/ \E t \in ThreadIds : TrackerCycle(t)
    \/ \E t \in ThreadIds : TrackerCycleFail(t)

SpecPrune == Init /\ [][NextPrune]_vars

(***************************************************************************)
(* Properties of the packet path (checked under Spec).                     *)
(***************************************************************************)
\* the outbound packets re-injected so far
Injected == { x \in net : x.dir = "out" }
\* the outbound interceptor t re-injects the packet it holds
OutInject(t) == DivertSend(t) /\ Role(t) = "out" /\ t \in h_open
\* ... and the packet reaches the network as it was captured
InjectedAsCaptured(t) ==
    [dir |-> "out", orig |-> thr[t].orig, pkt |-> thr[t].orig] \in net'

\* C1: whenever the outbound interceptor is about to re-inject a packet that
\* it has rewritten for a toggled application (it stands at send(packet) of
\* the slow path and its capture handle is open), the NAT table already
\* holds, under the key (dst_ip, dst_port, src_port) of that packet, the
\* entry (original source address, original interface index) written for
\* it; a reply, which exists only after the injection, is therefore looked
\* up in a table that has the entry.
InsertBeforeInject ==
    \A t \in Threads :
        (Role(t) = "out" /\ thr[t].pc = "send" /\ thr[t].rw # NoneI
                         /\ t \in h_open)
        => /\ NatKey(thr[t].orig) \in DKeys(nat_table)
           /\ DGet(nat_table, NatKey(thr[t].orig)) = NatValue(thr[t].orig)

\* a rewritten packet has been re-injected and its entry is in the table
InsertBeforeInjectSeen ==
    \E x \in Injected :
        /\ x.pkt # x.orig
        /\ DGet(nat_table, NatKey(x.orig)) = NatValue(x.orig)

\* the interceptor t finds the packet it holds attributed to no executable,
\* or to one that is not in the toggled set
NonToggledStep(t) ==
    /\ OutAttribute(t)
    /\ LET exe == Attribute(thr[t].pkt).exe
       IN  exe = None \/ exe = "" \/ exe \notin toggled_apps

\* C2: an outbound packet that the interceptor attributes to no executable
\* or to an executable outside the toggled set goes to send(packet) equal to
\* the captured packet and with the NAT table as it was, and is re-injected
\* as captured; while the toggled set is empty no packet enters the slow
\* path and only a packet in the slow path adds a NAT entry, so the NAT
\* table of an engine started with an empty toggled set and not updated
\* since is empty.
NonToggledPassThrough ==
    /\ [][\A t \in ThreadIds :
            NonToggledStep(t) => /\ thr'[t].pc = "send"
                                 /\ thr'[t].pkt = thr[t].orig
                                 /\ thr'[t].rw = NoneI
                                 /\ nat_table' = nat_table]_vars
    /\ [][\A t \in ThreadIds :
            (OutInject(t) /\ thr[t].rw = NoneI) => InjectedAsCaptured(t)]_vars
    /\ [][\A t \in ThreadIds :
            (t \in DOMAIN thr /\ t \in DOMAIN thr' /\ thr'[t].pc = "nat")
            => (thr[t].pc = "nat" \/ toggled_apps # {})]_vars
    /\ [][(DKeys(nat_table') \ DKeys(nat_table) # {})
          => \E t \in Threads : thr[t].pc = "nat"]_vars
    /\ []((toggled_apps = {} /\ n_upd = 0) => nat_table = EmptyMap)

\* a packet of the browser, captured on the VPN address in vpn_default mode
\* while the toggled set is empty, has been re-injected as captured and the
\* NAT table is empty
NonToggledPassThroughSeen ==
    \E x \in Injected :
        /\ n_upd = 0 /\ mode = "vpn_default" /\ toggled_apps = {}
        /\ x.orig.src_addr = vpn_ip /\ x.orig.src_port = 44000
        /\ x.pkt = x.orig
        /\ nat_table = EmptyMap

\* the interceptor t receives p, whose source address is the address of the
\* interface that the mode routes to by default
FastPathStep(t, p) ==
    /\ OutRecv(t, p)
    /\ \/ mode = "vpn_default" /\ p.src_addr = default_ip
       \/ mode = "direct_default" /\ p.src_addr = vpn_ip

\* C3: an outbound packet whose source address is default_ip in vpn_default
\* mode, or vpn_ip in direct_default mode, goes from recv() straight to
\* send(packet): no attribution step is taken for it (by_endpoint, by_port,
\* the PID cache and the NAT table are left alone), whatever the toggled set
\* holds, and the packet is re-injected as captured.
FastPathFirst ==
    /\ [][\A t \in ThreadIds, p \in OutPackets :
            FastPathStep(t, p) => /\ thr'[t].pc = "send"
                                  /\ thr'[t].pkt = p
                                  /\ thr'[t].orig = p
                                  /\ thr'[t].rw = NoneI
                                  /\ UNCHANGED table_vars]_vars
    /\ [][\A t \in ThreadIds :
            (OutInject(t) /\ thr[t].rw = NoneI /\ thr[t].pkt = thr[t].orig)
            => /\ InjectedAsCaptured(t)
               /\ UNCHANGED table_vars]_vars

\* a packet of the toggled browser, captured on the default address in
\* vpn_default mode, has been re-injected as captured with no NAT entry and
\* no PID resolved
FastPathFirstSeen ==
    \E x \in Injected :
        /\ n_upd = 0 /\ mode = "vpn_default"
        /\ BrowserNorm \in toggled_apps
        /\ x.orig.src_addr = default_ip /\ x.orig.src_port = 44000
        /\ x.pkt = x.orig
        /\ nat_table = EmptyMap
        /\ pid_cache = EmptyMap

\* the interceptor t finds the packet it holds attributed to an executable
\* of the toggled set
ToggledStep(t) ==
    /\ OutAttribute(t)
    /\ LET exe == Attribute(thr[t].pkt).exe
       IN  exe # None /\ exe # "" /\ exe \in toggled_apps

\* C4: an outbound packet attributed to a toggled executable and not taken
\* by the fast path enters the slow path; the slow path stores
\* (original source address, original interface index) under
\* (dst_ip, dst_port, src_port); the packet is then re-injected with its
\* source address set to default_ip when the mode read for it is
\* vpn_default and to vpn_ip when it is direct_default, with its interface
\* set to (target index, 0) when the index of the target interface is
\* configured and left as captured when it is not, and with its destination
\* and its ports as captured.
ToggledRewrite ==
    /\ [][\A t \in ThreadIds : ToggledStep(t) => thr'[t].pc = "nat"]_vars
    /\ [][\A t \in ThreadIds :
            OutInsertNat(t) =>
                LET o == thr[t].orig
                IN  /\ thr'[t].pc = "send"
                    /\ <<o.dst_addr, o.dst_port, o.src_port>>
                           \in DKeys(nat_table')
                    /\ DGet(nat_table',
                            <<o.dst_addr, o.dst_port, o.src_port>>)
                           = <<o.src_addr, o.interface[1]>>]_vars
    /\ [][\A t \in ThreadIds :
            (OutInject(t) /\ thr[t].rw # NoneI) =>
                LET o == thr[t].orig
                    x == thr[t].pkt
                    idx == IF thr[t].lmode = "vpn_default"
                           THEN default_if_index ELSE vpn_if_index
                IN  /\ [dir |-> "out", orig |-> o, pkt |-> x] \in net'
                    /\ x.src_addr = IF thr[t].lmode = "vpn_default"
                                    THEN default_ip ELSE vpn_ip
                    /\ x.interface = IF idx # NoneI THEN <<idx[1], 0>>
                                                    ELSE o.interface
                    /\ x.dst_addr = o.dst_addr /\ x.dst_port = o.dst_port
                    /\ x.src_port = o.src_port]_vars

\* a packet of the toggled browser, captured on the VPN address in
\* vpn_default mode, has been re-injected from the default address on the
\* default interface, and the NAT table holds its entry
ToggledRewriteSeen ==
    \E x \in Injected :
        /\ n_upd = 0 /\ mode = "vpn_default"
        /\ default_if_index # NoneI
        /\ x.orig.src_addr = vpn_ip
        /\ x.pkt.src_addr = default_ip
        /\ x.pkt.interface = <<default_if_index[1], 0>>
        /\ x.pkt.interface # x.orig.interface
        /\ DGet(nat_table, <<x.orig.dst_addr, x.orig.dst_port,
                             x.orig.src_port>>)
               = <<vpn_ip, x.orig.interface[1]>>

\* the inbound packets re-injected so far
Delivered == { y \in net : y.dir = "in" }

\* C5: the inbound interceptor looks the packet p up under
\* (p.src_addr, p.src_port, p.dst_port).  When the NAT table has an entry
\* for that key, the packet goes to send(packet) with its destination
\* address set to the original_local_ip of the entry, with its interface
\* set to (original interface index, 0) when that changed the destination,
\* and as captured when the destination already was that address; when the
\* table has no entry the packet goes to send(packet) as captured.  The
\* packet is re-injected as it went to send(packet).
ReverseNatOnLookup ==
    /\ [][\A t \in ThreadIds, p \in InPackets :
            InRecv(t, p) =>
                LET key == <<p.src_addr, p.src_port, p.dst_port>>
                    q == thr'[t].pkt
                IN  /\ thr'[t].pc = "send"
                    /\ thr'[t].orig = p
                    /\ IF key \in DKeys(nat_table)
                       THEN LET e == DGet(nat_table, key)
                            IN  /\ q.dst_addr = e[1]
                                /\ p.dst_addr # e[1]
                                       => q = [p EXCEPT
                                                 !.dst_addr = e[1],
                                                 !.interface = <<e[2], 0>>]
                                /\ p.dst_addr = e[1] => q = p
                       ELSE q = p]_vars
    /\ [][\A t \in ThreadIds :
            (DivertSend(t) /\ Role(t) = "in" /\ t \in h_open)
            => /\ [dir |-> "in", orig |-> thr[t].orig, pkt |-> thr[t].pkt]
                      \in net'
               /\ nat_table' = nat_table]_vars

\* an inbound packet that matched a NAT entry has been re-injected with the
\* destination and the interface of the entry
ReverseNatOnLookupSeen ==
    \E y \in Delivered :
        LET e == DGet(nat_table, <<y.orig.src_addr, y.orig.src_port,
                                   y.orig.dst_port>>)
        IN  /\ e # NoneI
            /\ y.orig.dst_addr # e[1]
            /\ y.pkt.dst_addr = e[1]
            /\ y.pkt.interface = <<e[2], 0>>

\* q answers the outbound packet x as it left the host
IsReply(q, x) ==
    /\ q.src_addr = x.dst_addr /\ q.src_port = x.dst_port
    /\ q.dst_addr = x.src_addr /\ q.dst_port = x.src_port

InstalledByStart ==
    { SplitRoute(dm, c.default_gateway, c.default_if_index[1]) :
        dm \in _SPLIT_ROUTES,
        c \in { d \in Configs : /\ Truthy(d.default_gateway)
                                /\ TruthyI(d.default_if_index) } }

\* C7: when every route command issued so far has succeeded, then after
\* stop() has returned (to its caller, or to the start() that called it on
\* a running engine) and until the next start() installs routes, the OS
\* route table holds none of the routes that start() installs, whatever the
\* sequence of start and stop calls and of configurations was and whether
\* or not the workers had exited before.
NoRouteAfterStop ==
    (~running /\ sup_pc \in {"idle", "start_cfg"} /\ ~route_failed)
    => routes \cap InstalledByStart = {}

\* stop() has returned after a start() that installed routes
NoRouteAfterStopSeen ==
    /\ sup_pc = "idle" /\ ~running /\ ~route_failed
    /\ hist # Other /\ Len(hist) = 2 /\ hist[2] = <<"stop">>
    /\ thr # << >>
    /\ RoutesConfigured
    /\ routes \cap InstalledByStart = {}

\* C8: after start(c); stop(); start(c); stop(), with every route command
\* carried out, the OS route table equals the table before the first start.
RouteTableRestored ==
    (/\ hist # Other /\ Len(hist) = 4
     /\ sup_pc = "idle" /\ ~running /\ ~route_failed)
    => routes = InitRoutes

\* the four calls have returned on an engine whose configuration installs
\* routes, and the route table is the initial one
RouteTableRestoredSeen ==
    /\ hist # Other /\ Len(hist) = 4
    /\ sup_pc = "idle" /\ ~running /\ ~route_failed
    /\ thr # << >>
    /\ RoutesConfigured
    /\ routes = InitRoutes

RunningFlagEveryCall ==
    /\ [][StopCall => (running /\ ~running')]_vars
    /\ [][\A c \in Configs : StartCall(c) => sup_call' = "start"]_vars

\* C10: the running flag changes only inside start() and stop().  It rises
\* once in every start() that does not raise, at the end of the call, and
\* is false from the entry of the call (after the stop() that start() runs
\* on a running engine) up to there; it falls once in every stop() of a
\* running engine, at the entry of the call, and stays false up to the
\* return; a stop() of an engine that is not running and a start() that
\* raises leave the flag as it is.  Every stop() of a running engine closes
\* the capture handles that are registered when it reaches lines 167-175,
\* and empties the two slots.
RunningFlag ==
    /\ [][running' # running
          => \/ ~running /\ StartSpawn
             \/ running /\ (StopCall \/ \E c \in Configs : StartCall(c))]_vars
    /\ [][StartSpawn => (~running /\ running')]_vars
    /\ [][(sup_call = "start" /\ sup_call' = "none") => StartSpawn]_vars
    /\ [][(StopCall /\ running) => ~running']_vars
    /\ [][(StopCall /\ ~running) => ~running']_vars
    /\ [][\A c \in Configs :
            (StartCall(c) /\ ~pydivert_ok) => running' = running]_vars
    /\ [](sup_pc # "idle" => ~running)
    /\ [][(sup_pc = "stop_close" /\ sup_pc' # "stop_close")
          => /\ \A h \in {outbound_handle, inbound_handle} \ {NoneI} :
                    h[1] \notin h_open'
             /\ outbound_handle' = NoneI
             /\ inbound_handle' = NoneI]_vars

\* stop() has closed the registered handle of an outbound interceptor that
\* waits in recv(), and the flag is false
RunningFlagSeen ==
    /\ sup_pc = "stop_join" /\ ~running
    /\ \E t \in Threads : /\ Role(t) = "out"
                          /\ thr[t].pc = "recv"
                          /\ t \notin h_open

\* C11 as stated: when a capture handle of the run could not be opened, the
\* start() of the run has left the engine not running.  (A diverter that has
\* returned while the stop flag is clear is one whose w.open() raised.)
CaptureOpenFailsStart ==
    \A t \in Threads :
        (IsDiverter(t) /\ thr[t].pc = "done" /\ ~stop_event
                       /\ sup_pc = "idle")
        => ~running

\* C12: a start() called while the capture library is missing returns to
\* its caller at once and leaves every field of the engine (the running
\* flag, the configuration, the tables), the workers, the capture handles
\* and the route table as they were.
NotInstalledTouchesNothing ==
    [][\A c \in Configs :
         (StartCall(c) /\ ~pydivert_ok)
         => /\ UNCHANGED <<engine_vars, thr, h_open, routes, route_failed>>
            /\ sup_pc' = "idle" /\ sup_call' = "none"]_vars

\* start(c) has been called on a host without the capture library: the
\* engine is not running, has no worker and the route table is the initial
\* one
NotInstalledTouchesNothingSeen ==
    /\ ~pydivert_ok
    /\ hist # Other /\ Len(hist) = 1 /\ hist[1][1] = "start"
    /\ sup_pc = "idle" /\ ~running
    /\ thr = << >> /\ threads = << >>
    /\ routes = InitRoutes

(***************************************************************************)
(* Properties of the life cycle with joins that time out (SpecTimeout).    *)
(***************************************************************************)
\* C13 as stated: a diverter worker that has not returned when the stop
\* flag is set eventually returns, wherever it stands (before w.open(),
\* between w.open() and the registration, before recv(), in recv()).
WorkerExitsAfterStop ==
    \A t \in ThreadIds :
        (stop_event /\ IsDiverter(t) /\ thr[t].pc # "done")
        ~> (IsDiverter(t) /\ thr[t].pc = "done")

(***************************************************************************)
(* Properties of the live updates.                                         *)
(***************************************************************************)
\* C14: update_policy(S) returns with the normalised S installed as the
\* toggled set; the toggled set is replaced only by a later update_policy
\* or start(); and the policy gate of every outbound packet tests
\* membership in the toggled set as it is when the gate is reached.  So a
\* decision that begins after update_policy(S) returned tests S or a set
\* installed later, never an earlier one.
PolicyNeverStale ==
    /\ [][\A apps \in PolicySets :
            update_policy(apps)
            => toggled_apps' = { _norm_path(a) : a \in apps }]_vars
    /\ [][toggled_apps' # toggled_apps
          => (StartConfig \/ \E apps \in PolicySets : update_policy(apps))]_vars
    /\ [][\A t \in ThreadIds :
            OutAttribute(t)
            => LET exe == Attribute(thr[t].pkt).exe
               IN  (thr'[t].pc = "nat")
                   <=> (exe # None /\ exe # "" /\ exe \in toggled_apps)]_vars

\* an engine started with an empty toggled set has been given the browser
\* by update_policy, and a packet of the browser has then been rewritten
PolicyNeverStaleSeen ==
    /\ n_upd = 1 /\ default_gateway = None
    /\ toggled_apps = {BrowserNorm}
    /\ \E x \in Injected : x.pkt # x.orig /\ x.orig.src_port = 44000


\* C15, as stated: every outbound decision that consults the policy uses a
\* (mode, toggled set) pair that the configuration held at one instant: the
\* mode read at line 336 together with the set read at line 357 is one of
\* the pairs held since start() installed the configuration.
ConsistentPolicySnapshot ==
    [][\A t \in ThreadIds :
         (OutAttribute(t) /\ Truthy(Attribute(thr[t].pkt).exe))
           => <<thr[t].lmode, toggled_apps>> \in held]_vars

\* C16: update_policy leaves the NAT table as it was.  While the toggled set
\* is empty after an update, an inbound packet whose key has a NAT entry
\* still goes to send(packet) reverse-mapped by that entry, and an outbound
\* packet that reaches the gate goes to send(packet) as captured and writes
\* no NAT entry.
NatSurvivesPolicyChange ==
    /\ [][\A apps \in PolicySets :
            update_policy(apps) => nat_table' = nat_table]_vars
    /\ [][\A t \in ThreadIds, p \in InPackets :
            (InRecv(t, p) /\ toggled_apps = {} /\ n_upd > 0
               /\ InNatKey(p) \in DKeys(nat_table))
            => LET e == DGet(nat_table, InNatKey(p))
               IN  /\ thr'[t].pc = "send"
                   /\ thr'[t].pkt.dst_addr = e[1]
                   /\ thr'[t].pkt = ReverseNat(p, e)]_vars
    /\ [][\A t \in ThreadIds :
            (OutAttribute(t) /\ toggled_apps = {} /\ n_upd > 0)
            => /\ thr'[t].pc = "send"
               /\ thr'[t].pkt = thr[t].orig
               /\ nat_table' = nat_table]_vars

\* the toggled set was emptied by an update while the flow of browser.exe
\* had its NAT entry; its reply is at send(packet) reverse-mapped and its next
\* outbound packet is at send(packet) as captured, the entry still there
NatSurvivesPolicyChangeSeen ==
    /\ toggled_apps = {} /\ n_upd > 0
    /\ \E o \in Threads, i \in Threads :
         /\ Role(o) = "out" /\ thr[o].pc = "send"
         /\ thr[o].pkt = thr[o].orig
         /\ Attribute(thr[o].orig).exe = BrowserNorm
         /\ NatKey(thr[o].orig) \in DKeys(nat_table)
         /\ Role(i) = "in" /\ thr[i].pc = "send"
         /\ InNatKey(thr[i].orig) = NatKey(thr[o].orig)
         /\ thr[i].pkt # thr[i].orig
         /\ thr[i].pkt.dst_addr = thr[o].orig.src_addr

\* C17, as stated, for every even bound (50 000 is even): an insertion of a
\* new key into a table that holds exactly max_entries entries is accepted,
\* and the prune of the table of max_entries + 1 entries leaves at most half
\* of max_entries entries.
NatCapacity ==
    /\ [][\A m \in NatCaps, key \in NatKeys, val \in NatValues :
            (NatInsert(key, val) /\ Len(nat_table) = m
               /\ key \notin DKeys(nat_table))
            => /\ Len(nat_table') = m + 1
               /\ DGet(nat_table', key) = val]_vars
    /\ [][\A m \in NatCaps :
            (NatCleanup(m) /\ m % 2 = 0 /\ Len(nat_table) = m + 1)
            => Len(nat_table') <= m \div 2]_vars

\* the place of a key in the insertion order of a dict
InsertionRank(d, key) == CHOOSE i \in 1..Len(d) : d[i].k = key

\* C18: cleanup_nat_table(max) leaves a table of at most max entries as it
\* is; from a table of n > max entries it evicts n div 2 keys, every evicted
\* key was inserted before every surviving key, and every surviving entry
\* keeps its value and its place among the survivors.
EvictsOldestHalf ==
    [][\A m \in NatCaps :
         NatCleanup(m) =>
           LET n == Len(nat_table)
               gone == DKeys(nat_table) \ DKeys(nat_table')
               kept == DKeys(nat_table')
           IN  /\ n <= m => nat_table' = nat_table
               /\ n > m =>
                    /\ kept \subseteq DKeys(nat_table)
                    /\ Cardinality(gone) = n \div 2
                    /\ Len(nat_table') = n - (n \div 2)
                    /\ \A e \in gone, k \in kept :
                         InsertionRank(nat_table, e)
                           < InsertionRank(nat_table, k)
                    /\ \A k \in kept :
                         DGet(nat_table', k) = DGet(nat_table, k)
                    /\ \A j, k \in kept :
                         InsertionRank(nat_table, j)
                           < InsertionRank(nat_table, k)
                         => InsertionRank(nat_table', j)
                              < InsertionRank(nat_table', k)]_vars

\* a prune has cut a table of four entries, written in an order that is not
\* the order of the keys and with both values, down to its newest two
EvictsOldestHalfSeen ==
    /\ Len(nat_table) = 2
    /\ nat_table[1].k[3] > nat_table[2].k[3]
    /\ nat_table[1].v # nat_table[2].v
    /\ evicted # {}
    /\ DKeys(nat_table) \cup evicted = NatKeys
    /\ DKeys(nat_table) \cap evicted = {}

\* C19: a tracker cycle whose socket enumeration raises leaves conn_table
\* and port_table as the last successful cycle published them and leaves the
\* tracker at its loop test, and the loop test of a tracker that has not been
\* told to stop starts the next cycle.
FailedCycleSkipped ==
    /\ [][\A t \in ThreadIds :
            TrackerCycleFail(t)
            => /\ conn_table' = conn_table
               /\ port_table' = port_table
               /\ thr'[t].pc = "loop"
               /\ thr'[t].snaps = thr[t].snaps]_vars
    /\ [][\A t \in ThreadIds :
            (TrackerLoopTestUpTo(t, MaxTrackerCycles) /\ ~stop_event)
            => thr'[t].pc = "cycle"]_vars

\* the enumeration has raised after a cycle that published the browser's
\* socket: the tables still hold it and the tracker is in its next cycle
FailedCycleSkippedSeen ==
    \E t \in Threads :
        /\ Role(t) = "conn"
        /\ thr[t].fails > 0
        /\ Len(thr[t].snaps) > 0
        /\ thr[t].pc = "cycle"
        /\ Get(conn_table, <<VpnIp, 44000>>) = BrowserNorm
        /\ Get(port_table, 44000) = BrowserNorm

\* C20, as stated: while the engine is running and its tracker has taken two
\* snapshots, every PID in the PID cache is among the alive_pids of one of
\* the tracker's two most recent snapshots.
PidCacheWithinSnapshots ==
    running =>
        \A t \in Threads :
            (Role(t) = "conn" /\ Len(thr[t].snaps) = 2)
            => DOMAIN pid_cache \subseteq (thr[t].snaps[1] \cup thr[t].snaps[2])

\* C21: a tracker cycle whose enumeration succeeds and lists a socket bound
\* to the wildcard address on port p, owned by a process whose executable
\* resolves, publishes a conn_table that maps (vpn_ip, p) and
\* (default_ip, p) to an executable, so that every outbound packet with
\* source port p finds its source endpoint in the published table.
WildcardIndexedTwice ==
    [][\A t \in ThreadIds :
         TrackerCycle(t) =>
           \A c \in os_socks :
             (c.ip = Wildcard /\ Truthy(ProcExe(c.pid)))
             => /\ Truthy(Get(conn_table', <<vpn_ip, c.port>>))
                /\ Truthy(Get(conn_table', <<default_ip, c.port>>))
                /\ \A p \in OutPackets :
                     p.src_port = c.port
                     => Truthy(Get(conn_table',
                                   <<p.src_addr, p.src_port>>))]_vars

\* the tracker has listed the server's wildcard listener on port 5000: the
\* published table holds it under the wildcard, the tunnel and the default
\* address
WildcardIndexedTwiceSeen ==
    /\ \E t \in Threads :
         /\ Role(t) = "conn" /\ Len(thr[t].snaps) > 0
         /\ 12 \in thr[t].snaps[Len(thr[t].snaps)]
    /\ Get(conn_table, <<Wildcard, 5000>>) = ServerNorm
    /\ Get(conn_table, <<VpnIp, 5000>>) = ServerNorm
    /\ Get(conn_table, <<DefaultIp, 5000>>) = ServerNorm

\* the keys under which the tracker indexes socket c
EndpointKeys(c) ==
    { <<c.ip, c.port>> }
      \cup (IF c.ip \in {Wildcard, "::"}
            THEN { <<vpn_ip, c.port>>, <<default_ip, c.port>> } ELSE {})

\* C22: the conn_table a successful tracker cycle publishes has entries only
\* for sockets of that cycle's snapshot (under the socket's own endpoint, or
\* under the vpn_ip / default_ip copy of a wildcard socket), each with the
\* executable of such a socket, and nothing but a successful cycle or the
\* clearing of start()/stop() changes the published table.
EntriesFromLastSnapshot ==
    /\ [][\A t \in ThreadIds :
            TrackerCycle(t) =>
              \A key \in DOMAIN conn_table' :
                \E c \in os_socks :
                  /\ key \in EndpointKeys(c)
                  /\ conn_table'[key] = _norm_path(ProcExe(c.pid))]_vars
    /\ [][conn_table' # conn_table
            => \/ \E t \in ThreadIds : TrackerCycle(t)
               \/ conn_table' = EmptyMap]_vars

\* the browser's socket was in the snapshot before the last one and not in
\* the last one: the published table has no entry for it any more, while it
\* has the entries of the server's listener
EntriesFromLastSnapshotSeen ==
    /\ \E t \in Threads :
         /\ Role(t) = "conn" /\ thr[t].snaps = << {11}, {12} >>
    /\ Get(conn_table, <<VpnIp, 44000>>) = None
    /\ Get(conn_table, <<VpnIp, 5000>>) = ServerNorm

NoTableAcrossRuns ==
    (sup_pc = "start_spawn" \/ (sup_pc = "idle" /\ ~running))
    => /\ conn_table = EmptyMap
       /\ port_table = EmptyMap
       /\ pid_cache = EmptyMap
       /\ nat_table = EmptyMap

\* C25: whichever route commands fail, start() goes on from its route step
\* to spawn its three workers and returns with the running flag set, and
\* stop() goes on from its route step and returns with the running flag
\* clear.
RoutesNeverFailTheCall ==
    /\ [][\A ok \in SUBSET _SPLIT_ROUTES :
            StartRoutes(ok)
            => sup_pc' = "start_spawn" /\ sup_call' = "start"]_vars
    /\ [][StartSpawn
            => /\ running' /\ Len(threads') = 3
               /\ \A i \in 1..3 : thr'[threads'[i]].pc = "start"
               /\ sup_pc' = "idle" /\ sup_call' = "none"]_vars
    /\ [][\A ok \in SUBSET _SPLIT_ROUTES :
            StopRoutes(ok)
            => sup_pc' = "stop_close" /\ ~running']_vars
    /\ [][(sup_call = "stop" /\ sup_pc # "idle" /\ sup_pc' = "idle")
            => ~running' /\ sup_call' = "none"]_vars

\* start() has returned on a running engine with three workers although
\* neither route of this run was added, and a route of the run before, on
\* another gateway, is still there because its removal failed
RoutesNeverFailTheCallSeen ==
    /\ sup_pc = "idle" /\ running /\ Len(threads) = 3
    /\ RoutesConfigured
    /\ \A r \in routes : r.metric = 9999 => r.gateway # default_gateway
    /\ \E r \in routes : r.metric = 9999

\* C26, as stated: a stop() of a running engine, whichever of its steps
\* fail and whatever the workers do, returns, and when it returns the
\* running flag is clear and both handle slots are None.
StopAlwaysCompletes ==
    /\ (sup_call = "stop") ~> (sup_pc = "idle")
    /\ [][(sup_call = "stop" /\ sup_pc # "idle" /\ sup_pc' = "idle")
            => /\ ~running'
               /\ outbound_handle' = NoneI
               /\ inbound_handle' = NoneI]_vars

\* C27: start(c) on a running engine begins with stop(): it sets the stop
\* flag and clears the running flag with the configuration and the routes
\* untouched; until that stop has cleared the tables the configuration is
\* the one of the previous run and no worker is spawned; the stop closes
\* every registered handle and goes through its joins; when start() comes
\* to apply the new configuration, every route command having been carried
\* out, no route of an earlier run is left, the engine is not running and
\* its thread list is empty; and the workers are spawned with the new
\* configuration in place and its routes installed.
RestartStopsFirst ==
    /\ [][\A c \in Configs :
            (StartCall(c) /\ running /\ pydivert_ok)
            => /\ stop_event' /\ ~running'
               /\ sup_pc' = "stop_routes"
               /\ UNCHANGED <<cfg_vars, routes, thr, h_open>>]_vars
    /\ [][(sup_call = "start" /\ sup_pc \in {"stop_routes", "stop_close",
                                              "stop_join", "stop_clear"})
            => UNCHANGED cfg_vars /\ Len(thr') = Len(thr)]_vars
    /\ [][(sup_call = "start" /\ sup_pc = "stop_close"
                              /\ sup_pc' # "stop_close")
            => /\ h_open' \cap HandlesToClose = {}
               /\ outbound_handle' = NoneI /\ inbound_handle' = NoneI
               /\ sup_pc' = "stop_join"]_vars
    /\ [][(sup_call = "start" /\ sup_pc = "stop_join"
                              /\ sup_pc' # "stop_join")
            => sup_pc' = "stop_clear"]_vars
    /\ []((sup_call = "start" /\ sup_pc = "start_cfg" /\ ~route_failed)
            => /\ \A r \in routes : r.metric # 9999
               /\ ~running
               /\ threads = << >>)
    /\ [][StartSpawn
            => /\ mode = sup_args.mode
               /\ default_gateway = sup_args.default_gateway
               /\ default_if_index = sup_args.default_if_index
               /\ (RoutesConfigured /\ ~route_failed)
                    => \A dm \in _SPLIT_ROUTES :
                         SplitRoute(dm, default_gateway, default_if_index[1])
                           \in routes]_vars

\* a start() with another gateway is under way on an engine that was
\* running: its stop has removed the routes of the previous run, closed the
\* handles and joined the workers, and the configuration is still the
\* previous one
RestartStopsFirstSeen ==
    /\ sup_call = "start" /\ sup_pc = "stop_clear"
    /\ ~route_failed /\ RoutesConfigured
    /\ Truthy(sup_args.default_gateway)
    /\ sup_args.default_gateway # default_gateway
    /\ \A r \in routes : r.metric # 9999
    /\ thr # << >> /\ AllReturned /\ h_open = {}

\* C28, as stated: once the stop flag is set, no step of the tracker writes
\* conn_table, port_table, the PID cache or the NAT table, a tracker that
\* was inside a cycle when the flag was set included.
TrackerSilentAfterStop ==
    [][\A t \in ThreadIds :
         (stop_event /\ (\/ TrackerLoopTest(t)
                         \/ TrackerCycle(t)
                         \/ TrackerCycleFail(t)))
         => UNCHANGED <<conn_table, port_table, pid_cache, nat_table>>]_vars

\* C29: a tracker cycle, its enumeration succeeding or raising, calls
\* cleanup_nat_table exactly when it is the 50th, 100th, ... cycle since the
\* worker started, and the tracker's own count is the number of cycles run
\* since the last of these.
PruneEvery50th ==
    /\ [][\A t \in ThreadIds :
            (TrackerCycle(t) \/ TrackerCycleFail(t))
            => /\ thr'[t].total = thr[t].total + 1
               /\ IF thr'[t].total % 50 = 0
                  THEN /\ thr'[t].prunes = thr[t].prunes + 1
                       /\ nat_table' = cleanup_nat_table(nat_table, 50000)
                  ELSE /\ thr'[t].prunes = thr[t].prunes
                       /\ nat_table' = nat_table]_vars
    /\ [](\A t \in Threads :
            Role(t) = "conn" /\ thr[t].pc # "done"
            => /\ thr[t].prunes = thr[t].total \div 50
               /\ thr[t].cycles = thr[t].total % 50)

\* the tracker has run 100 cycles, some of which raised, and has called
\* cleanup_nat_table twice
PruneEvery50thSeen ==
    \E t \in Threads :
        /\ Role(t) = "conn"
        /\ thr[t].total = 100 /\ thr[t].prunes = 2
        /\ thr[t].fails > 0 /\ Len(thr[t].snaps) = 2

\* C30: start() installs the routes 0.0.0.0/1 and 128.0.0.0/1 via the
\* gateway it was given, on the default interface index it was given, with
\* metric 9999, and nothing else; given no gateway (or no interface index)
\* it installs nothing; stop() removes routes exactly when the start() of
\* the run it stops installed them, and leaves the route table alone
\* otherwise.
RoutesAsConfigured ==
    /\ [][\A ok \in SUBSET _SPLIT_ROUTES :
            StartRoutes(ok)
            => IF /\ sup_args.default_gateway \notin {None, ""}
                  /\ sup_args.default_if_index \notin {NoneI, Some(0)}
               THEN /\ route_added'
                    /\ routes' = routes \cup
                         { [dest |-> d, mask |-> "128.0.0.0",
                            gateway |-> sup_args.default_gateway,
                            metric |-> 9999,
                            ifx |-> sup_args.default_if_index[1]] :
                           d \in { dm[1] : dm \in ok } }
               ELSE /\ ~route_added'
                    /\ routes' = routes]_vars
    /\ [][\A ok \in SUBSET _SPLIT_ROUTES :
            StopRoutes(ok)
            => IF route_added
               THEN routes' = { r \in routes :
                                  ~ /\ <<r.dest, r.mask>> \in ok
                                    /\ r.gateway = default_gateway
                                    /\ r.ifx = default_if_index[1] }
               ELSE routes' = routes /\ route_failed' = route_failed]_vars
    /\ [](sup_pc = "stop_routes" => (RoutesConfigured <=> route_added))
    /\ [](default_gateway = None
            => ~ \E r \in routes : r.metric = 9999 /\ ~route_failed)

\* a running engine whose start() installed exactly the two routes
RoutesAsConfiguredSeen ==
    /\ running /\ sup_pc = "idle" /\ route_added
    /\ { r \in routes : r.metric = 9999 }
         = { [dest |-> d, mask |-> "128.0.0.0", gateway |-> default_gateway,
              metric |-> 9999, ifx |-> default_if_index[1]] :
             d \in {"0.0.0.0", "128.0.0.0"} }

\* C31: a recv or a send that fails in a diverter ends the worker only if
\* the stop flag is set: with the flag clear the worker drops the packet it
\* held, re-injects nothing and is back at recv; with the flag set it goes
\* to its exit path.
TransientFailureNonFatal ==
    [][\A t \in ThreadIds :
         (\/ DivertRecvFails(t)
          \/ DivertRecvClosed(t)
          \/ DivertSendFails(t)
          \/ (DivertSend(t) /\ t \notin h_open))
         => /\ thr'[t].pc = IF stop_event THEN "finally" ELSE "recv"
            /\ thr'[t].pkt = None
            /\ net' = net
            /\ h_open' = h_open]_vars

\* with the stop flag clear the send of the first outbound packet failed,
\* nothing was re-injected, and the worker has read the second packet
TransientFailureNonFatalSeen ==
    \E t \in Threads :
        /\ Role(t) = "out" /\ thr[t].pc = "send" /\ t \in h_open
        /\ ~stop_event /\ running
        /\ n_out = 2
        /\ { x \in net : x.dir = "out" } = {}

\* C32, as stated: the PID cache belongs to the tracker; no step of the
\* outbound diverter, its synchronous port-to-process fallback included,
\* and no step of the inbound diverter changes pid_cache.
PidCacheOwnedByTracker ==
    [][\A t \in ThreadIds :
         (\/ \E p \in OutPackets : OutRecv(t, p)
          \/ OutAttribute(t)
          \/ OutInsertNat(t)
          \/ \E p \in InPackets : InRecv(t, p)
          \/ DivertSend(t))
         => pid_cache' = pid_cache]_vars

\* C33, as stated: while the engine is running, the NAT insertion and the
\* prune exclude each other: no insertion happens and no key enters the
\* table while a prune is in progress, a prune never meets a key that the
\* table does not hold, and the inbound lookup returns a whole entry or
\* none.
NatMutexProtects ==
    /\ [][\A t \in ThreadIds :
            (running /\ OutInsertNat(t)) => NatLockFree]_vars
    /\ [][(running /\ running'
            /\ \E t \in Threads : thr[t].pc = "prune" /\ thr'[t].pc = "prune")
           => DKeys(nat_table') \subseteq DKeys(nat_table)]_vars
    /\ [][\A t \in ThreadIds :
            (running /\ PruneDelete(t))
            => Head(thr[t].keys) \in DKeys(nat_table)]_vars
    /\ [][\A t \in ThreadIds, p \in LockInPackets :
            (running /\ InRecv(t, p))
            => \/ thr'[t].rw = NoneI
               \/ thr'[t].rw \in { NatValue(q) : q \in LockOutPackets }]_vars

\* the tables a completed for loop can have built
CompleteTables ==
    { TrackAll([table |-> EmptyMap, ports |-> EmptyMap, alive |-> {},
                cache |-> EmptyMap], listing) :
        listing \in UNION { Listings(S) : S \in SUBSET SocketUniverse } }

\* C34: conn_table and port_table change only by the assignment of a table
\* whose for loop has finished (or by the clearing of start and stop), so
\* every lookup of the outbound diverter, whenever it runs during a cycle,
\* reads the whole table of an earlier cycle or the whole table of this
\* cycle.
TablesPublishedWhole ==
    /\ [][conn_table' # conn_table
           => \/ sup_pc \in {"start_cfg", "stop_clear"}
              \/ \E t \in Threads :
                   /\ thr[t].pc = "build" /\ thr[t].conns = << >>
                   /\ conn_table' = thr[t].new_table]_vars
    /\ [][port_table' # port_table
           => \/ sup_pc \in {"start_cfg", "stop_clear"}
              \/ \E t \in Threads :
                   /\ thr[t].pc = "publish" /\ thr[t].conns = << >>
                   /\ port_table' = thr[t].new_port_table]_vars
    /\ [][\A t \in ThreadIds :
            OutAttribute(t)
            => /\ conn_table \in { a.table : a \in CompleteTables }
               /\ port_table \in { a.ports : a \in CompleteTables }]_vars

\* the outbound diverter is about to look a packet up while the tracker is
\* in the middle of its for loop, one connection built and one to go, with
\* the table of the cycle before still published
TablesPublishedWholeSeen ==
    \E t, u \in Threads :
        /\ Role(t) = "conn" /\ thr[t].pc = "build"
        /\ Len(thr[t].conns) = 1 /\ thr[t].new_table # EmptyMap
        /\ thr[t].total = 1
        /\ conn_table # EmptyMap /\ conn_table # thr[t].new_table
        /\ Role(u) = "out" /\ thr[u].pc = "attr"

\* the non-zero owners of the rows of a table whose local port is port
Owners(table, port) ==
    { table[i].dwOwningPid : i \in { j \in 1..Len(table) :
                                      /\ _htons(table[j].dwLocalPort) = port
                                      /\ table[j].dwOwningPid # 0 } }

\* C35, as stated: when both tables are retrieved, get_pid_for_port returns
\* a non-zero owner of a TCP row for the port if the TCP table has one,
\* else a non-zero owner of a UDP row for the port if the UDP table has
\* one, else none; so it returns a PID whenever either table holds a row
\* for the port with a non-zero owner.
ResolveFindsOwner ==
    (/\ lookup # NoLookup
     /\ TableRetrieved(lookup.tcp_rets, 1)
     /\ TableRetrieved(lookup.udp_rets, 1))
    => IF Owners(lookup.tcp_table, lookup.port) # {}
       THEN /\ lookup.pid # NoneI
            /\ lookup.pid[1] \in Owners(lookup.tcp_table, lookup.port)
       ELSE IF Owners(lookup.udp_table, lookup.port) # {}
       THEN /\ lookup.pid # NoneI
            /\ lookup.pid[1] \in Owners(lookup.udp_table, lookup.port)
       ELSE lookup.pid = NoneI

\* C36, as stated: at any time at most one tracker, at most one outbound
\* diverter and at most one inbound diverter have been started and have not
\* returned.
OneWorkerPerRole ==
    \A r \in {"conn", "out", "in"} :
        Cardinality({ t \in Threads : Role(t) = r /\ thr[t].pc # "done" }) <= 1

\* the handle slot of a direction
Slot(r) == IF r = "out" THEN outbound_handle ELSE inbound_handle

\* C37, as stated: while the engine is running, a diverter of the current
\* run that has registered its handle and holds it open is the one its
\* direction's slot refers to, so that the close step of the next stop()
\* closes it; and the exit path of a worker clears the slot only when the
\* slot is empty or holds that worker's own handle.
SlotTracksOpenHandle ==
    /\ [](\A i \in 1..Len(threads) :
            (/\ running
             /\ Role(threads[i]) \in {"out", "in"}
             /\ thr[threads[i]].pc \in {"recv", "attr", "nat", "send"}
             /\ threads[i] \in h_open)
            => Slot(Role(threads[i])) = Some(threads[i]))
    /\ [][\A t \in ThreadIds :
            DivertFinallySlot(t) => Slot(Role(t)) \in {NoneI, Some(t)}]_vars

\* the outbound packets that were re-injected unchanged and rewritten
PassedOut == { x \in Injected : x.pkt = x.orig }
RewrittenOut == { x \in Injected : x.pkt # x.orig }

\* x and y are outbound packets of one flow (local ip, local port, remote
\* ip, remote port)
SameFlow(x, y) ==
    /\ x.orig.src_addr = y.orig.src_addr /\ x.orig.src_port = y.orig.src_port
    /\ x.orig.dst_addr = y.orig.dst_addr /\ x.orig.dst_port = y.orig.dst_port

\* C38, as stated: an inbound packet that answers a flow whose outbound
\* packets were all re-injected unchanged is re-injected unchanged, also
\* when a diverted flow has the same remote ip, remote port and local port.
PassedFlowRepliesUntouched ==
    \A y \in Delivered :
        (\E x \in PassedOut :
            /\ IsReply(y.orig, x.orig)
            /\ \A z \in Injected : SameFlow(z, x) => z \in PassedOut)
        => y.pkt = y.orig

\* the rewritten outbound packets whose NAT entry may be in the table: the
\* re-injected ones and those at send(packet)
RewrittenSoFar ==
    { x.orig : x \in RewrittenOut }
    \cup { thr[t].orig : t \in { u \in Threads : /\ Role(u) = "out"
                                                 /\ thr[u].pc = "send"
                                                 /\ thr[u].pkt # thr[u].orig } }

\* C38, amended: the inbound interceptor changes a packet exactly when the
\* NAT table holds an entry under the packet's (remote ip, remote port,
\* local port) whose address is not the packet's destination; such an
\* entry exists only if an outbound packet with that remote ip, remote port
\* and local port has been rewritten, and the packet then receives the
\* address stored for it, whatever local ip the packet's own flow has.
InboundChangedByNatKey ==
    [][\A t \in ThreadIds, p \in InPackets :
         InRecv(t, p)
         => LET e == DGet(nat_table, <<p.src_addr, p.src_port, p.dst_port>>)
            IN  /\ (thr'[t].pkt # p) <=> (e # NoneI /\ e[1] # p.dst_addr)
                /\ (thr'[t].pkt # p)
                   => /\ thr'[t].pkt.dst_addr = e[1]
                      /\ \E o \in RewrittenSoFar :
                           /\ o.dst_addr = p.src_addr
                           /\ o.dst_port = p.src_port
                           /\ o.src_port = p.dst_port]_vars

\* a flow from the default address was passed unchanged, a flow from the
\* tunnel address with the same ports and remote end was rewritten, and an
\* inbound packet that answers the first has been re-injected with the
\* tunnel address as its destination
InboundChangedByNatKeySeen ==
    \E y \in Delivered, x \in PassedOut, z \in RewrittenOut :
        /\ IsReply(y.orig, x.orig)
        /\ NatKey(z.orig) = NatKey(x.orig)
        /\ z.orig.src_addr # x.orig.src_addr
        /\ y.pkt # y.orig
        /\ y.pkt.dst_addr = z.orig.src_addr

\* C39: the slow path gives a packet a source address that is not the one
\* it was captured with, and the NAT entry it writes stores the captured
\* address, which therefore differs from the address the packet leaves
\* with; this holds when update_mode changes the mode between the fast-path
\* test and the choice of the target.
RewriteChangesSource ==
    /\ [][\A t \in ThreadIds :
            OutInsertNat(t)
            => /\ thr'[t].pkt.src_addr # thr[t].orig.src_addr
               /\ DGet(nat_table', NatKey(thr[t].orig))[1]
                      = thr[t].orig.src_addr
               /\ DGet(nat_table', NatKey(thr[t].orig))[1]
                      # thr'[t].pkt.src_addr]_vars
    /\ [](\A x \in Injected :
            x.pkt # x.orig => x.pkt.src_addr # x.orig.src_addr)

\* a packet is at send(packet) rewritten for the mode that was read when it
\* was captured, while update_mode has since set the other mode
RewriteChangesSourceSeen ==
    \E t \in Threads :
        /\ Role(t) = "out" /\ thr[t].pc = "send" /\ thr[t].rw # NoneI
        /\ thr[t].lmode # mode /\ n_upd > 0
        /\ thr[t].pkt.src_addr # thr[t].orig.src_addr
        /\ DGet(nat_table, NatKey(thr[t].orig))
               = <<thr[t].orig.src_addr, thr[t].orig.interface[1]>>

\* the last deletion of a key in the log (0 when there is none), the first
\* assignment of the key after it, and the last assignment of the key
LastDel(log, key) ==
    LET s == { i \in 1..Len(log) : log[i].op = "del" /\ log[i].k = key }
    IN  IF s = {} THEN 0 ELSE CHOOSE i \in s : \A j \in s : j <= i
FirstPut(log, key) ==
    LET s == { i \in 1..Len(log) : /\ log[i].op = "put" /\ log[i].k = key
                                   /\ i > LastDel(log, key) }
    IN  IF s = {} THEN 0 ELSE CHOOSE i \in s : \A j \in s : i <= j
LastPut(log, key) ==
    LET s == { i \in 1..Len(log) : log[i].op = "put" /\ log[i].k = key }
    IN  IF s = {} THEN 0 ELSE CHOOSE i \in s : \A j \in s : j <= i
KeyOrder(d) == [i \in 1..Len(d) |-> d[i].k]

\* C40: the eviction order of the NAT table is the order in which its keys
\* were first inserted; assigning a key that the table holds replaces its
\* value and moves no key; and a prune evicts only keys that were first
\* inserted before every key it keeps, whenever they were last written.
EvictionAgeFixedAtFirstInsert ==
    /\ [](\A i, j \in 1..Len(nat_table) :
            i < j => /\ FirstPut(nat_log, nat_table[i].k) > 0
                     /\ FirstPut(nat_log, nat_table[i].k)
                          < FirstPut(nat_log, nat_table[j].k))
    /\ [][\A key \in NatKeys, val \in NatValues :
            (NatWrite(key, val) /\ key \in DKeys(nat_table))
            => /\ KeyOrder(nat_table') = KeyOrder(nat_table)
               /\ DGet(nat_table', key) = val
               /\ \A k \in DKeys(nat_table) \ {key} :
                     DGet(nat_table', k) = DGet(nat_table, k)]_vars
    /\ [][\A m \in NatCaps :
            NatPrune(m)
            => \A e \in DKeys(nat_table) \ DKeys(nat_table'),
                  k \in DKeys(nat_table') :
                    FirstPut(nat_log, e) < FirstPut(nat_log, k)]_vars

\* a key was inserted, then another, then the first was assigned again with
\* another value, and the prune evicted the first and kept the second
EvictionAgeFixedAtFirstInsertSeen ==
    \E e \in evicted \ DKeys(nat_table), k \in DKeys(nat_table) :
        \E a, b, c \in 1..Len(nat_log) :
            /\ a < b /\ b < c
            /\ nat_log[a].op = "put" /\ nat_log[a].k = e
            /\ nat_log[b].op = "put" /\ nat_log[b].k = e
            /\ nat_log[a].v # nat_log[b].v
            /\ nat_log[c].op = "del" /\ nat_log[c].k = e
            /\ LastPut(nat_log, k) < b
            /\ a < FirstPut(nat_log, k)
            /\ LastDel(nat_log, k) = 0
====
